---- MODULE Spec2Model ----
(***************************************************************************)
(* The Vulkan Memory Allocator vendored in Substrate's CVkRenderer         *)
(* (vk_mem_alloc.cpp): block metadata, allocations that can become lost,   *)
(* the block vector of a custom pool and the allocator calls on top of it. *)
(*                                                                         *)
(* Conventions.  A VmaSuballocationList::iterator is represented by the   *)
(* offset of the node it points to: offsets are unique inside one list and *)
(* a node's offset is never changed while the node is registered in        *)
(* m_FreeSuballocationsBySize.  Inside an algorithm an iterator is the     *)
(* 1-based position of the node, 0 stands for a dangling iterator and      *)
(* Len + 1 for end().  VMA_ASSERT and VMA_HEAVY_ASSERT expand to nothing   *)
(* in this build (NDEBUG), so an assertion never stops an operation.       *)
(* uint32_t frame indices are kept modulo FrameMod, a reduced word.        *)
(***************************************************************************)
EXTENDS Integers, Sequences, FiniteSets, TLC

VARIABLES
    m_Blocks,             \* VmaBlockVector::m_Blocks: sequence of VmaDeviceMemoryBlock
    hAllocations,         \* the VmaAllocation_T objects, by handle
    m_CurrentFrameIndex,  \* VmaAllocator_T::m_CurrentFrameIndex
    m_FrameInUseCount,    \* VmaBlockVector::m_FrameInUseCount
    m_MinBlockCount,      \* VmaBlockVector::m_MinBlockCount
    m_HeapSizeLimit,      \* VmaAllocator_T::m_HeapSizeLimit of the heap: what may still be allocated
    m_Pools,              \* VmaAllocator_T::m_Pools: the block vectors of further pools
    m_HasEmptyBlock,      \* VmaBlockVector::m_HasEmptyBlock
    ret,                  \* the last call and what it returned
    threads,              \* the position and locals of each thread inside a call
    hist                  \* history of the calls, read by the properties only

vars == <<m_Blocks, hAllocations, m_CurrentFrameIndex, m_FrameInUseCount,
          m_MinBlockCount, m_HeapSizeLimit, m_Pools, m_HasEmptyBlock, ret, threads, hist>>

(***************************************************************************)
(* Bounds of the model.                                                    *)
(***************************************************************************)
MaxFrame == 1
FrameMod == 16

\* VkDeviceSize is uint64_t: sizes and offsets are kept modulo VkDeviceSizeMod,
\* a reduced width that every block of the model is well below.
VkDeviceSizeMod == 256
VkDeviceSize(x) == x % VkDeviceSizeMod
MetaMaxAllocations == 3

(***************************************************************************)
(* Constants of the program.                                               *)
(***************************************************************************)
VMA_FRAME_INDEX_LOST == FrameMod - 1
VMA_MIN_FREE_SUBALLOCATION_SIZE_TO_REGISTER == 16
VMA_LOST_ALLOCATION_COST == 1048576
VMA_ALLOCATION_TRY_COUNT == 32
VMA_DEBUG_ALIGNMENT == 1
VMA_DEBUG_MARGIN == 0
VK_WHOLE_SIZE == 2147483647
VK_NULL_HANDLE == 0

\* The value of a VmaMutex that no thread has locked.
NoThread == 0

MAP_COUNT_FLAG_PERSISTENT_MAP == 128

VMA_SUBALLOCATION_TYPE_FREE == 0
VMA_SUBALLOCATION_TYPE_UNKNOWN == 1
VMA_SUBALLOCATION_TYPE_BUFFER == 2
VMA_SUBALLOCATION_TYPE_IMAGE_UNKNOWN == 3
VMA_SUBALLOCATION_TYPE_IMAGE_LINEAR == 4
VMA_SUBALLOCATION_TYPE_IMAGE_OPTIMAL == 5

(***************************************************************************)
(* Free helper functions.                                                  *)
(***************************************************************************)
VMA_MAX(v1, v2) == IF v1 > v2 THEN v1 ELSE v2

\* The first index a forward loop over the indices in S stops at.
FirstOf(S) == CHOOSE k \in S : \A j \in S : k <= j

VmaAlignUp(val, align) == ((val + align - 1) \div align) * align

\* x & ~(pageSize - 1): for the power of two that a granularity is, the mask
\* clears the bits below pageSize.
PageOf(x, pageSize) == (x \div pageSize) * pageSize

VmaBlocksOnSamePage(resourceAOffset, resourceASize, resourceBOffset, pageSize) ==
    LET resourceAEnd == resourceAOffset + resourceASize - 1
        resourceAEndPage == PageOf(resourceAEnd, pageSize)
        resourceBStartPage == PageOf(resourceBOffset, pageSize)
    IN  resourceAEndPage = resourceBStartPage

VmaIsBufferImageGranularityConflict(suballocType1, suballocType2) ==
    LET t1 == IF suballocType1 > suballocType2 THEN suballocType2 ELSE suballocType1
        t2 == IF suballocType1 > suballocType2 THEN suballocType1 ELSE suballocType2
    IN  CASE t1 = VMA_SUBALLOCATION_TYPE_FREE -> FALSE
          [] t1 = VMA_SUBALLOCATION_TYPE_UNKNOWN -> TRUE
          [] t1 = VMA_SUBALLOCATION_TYPE_BUFFER ->
                t2 = VMA_SUBALLOCATION_TYPE_IMAGE_UNKNOWN
                   \/ t2 = VMA_SUBALLOCATION_TYPE_IMAGE_OPTIMAL
          [] t1 = VMA_SUBALLOCATION_TYPE_IMAGE_UNKNOWN ->
                t2 = VMA_SUBALLOCATION_TYPE_IMAGE_UNKNOWN
                   \/ t2 = VMA_SUBALLOCATION_TYPE_IMAGE_LINEAR
                   \/ t2 = VMA_SUBALLOCATION_TYPE_IMAGE_OPTIMAL
          [] t1 = VMA_SUBALLOCATION_TYPE_IMAGE_LINEAR ->
                t2 = VMA_SUBALLOCATION_TYPE_IMAGE_OPTIMAL
          [] t1 = VMA_SUBALLOCATION_TYPE_IMAGE_OPTIMAL -> FALSE
          [] OTHER -> TRUE

\* Binary search over a vector given by the sizes of its elements; down and up
\* are 0-based as in the code, sizes is 1-based.
RECURSIVE VmaBinaryFindFirstNotLess(_, _, _, _)
VmaBinaryFindFirstNotLess(sizes, down, up, key) ==
    IF down < up
    THEN LET mid == (down + up) \div 2
         IN  IF sizes[mid + 1] < key
             THEN VmaBinaryFindFirstNotLess(sizes, mid + 1, up, key)
             ELSE VmaBinaryFindFirstNotLess(sizes, down, mid, key)
    ELSE down

VmaVectorInsert(vec, index, item) ==
    SubSeq(vec, 1, index) \o <<item>> \o SubSeq(vec, index + 1, Len(vec))

VmaVectorRemove(vec, index) ==
    SubSeq(vec, 1, index) \o SubSeq(vec, index + 2, Len(vec))

(***************************************************************************)
(* VmaAllocation_T.                                                        *)
(***************************************************************************)
NoAllocation ==
    [m_Type |-> "NONE", m_Block |-> 0, m_Offset |-> 0, m_Alignment |-> 1,
     m_Size |-> 0, m_SuballocationType |-> VMA_SUBALLOCATION_TYPE_UNKNOWN,
     m_CanBecomeLost |-> FALSE, m_LastUseFrameIndex |-> 0, m_MapCount |-> 0,
     m_hMemory |-> VK_NULL_HANDLE]

InitBlockAllocation(currentFrameIndex, block, offset, alignment, size, suballocationType, mapped, canBecomeLost) ==
    [m_Type |-> "BLOCK", m_Block |-> block, m_Offset |-> offset,
     m_Alignment |-> alignment, m_Size |-> size, m_SuballocationType |-> suballocationType,
     m_CanBecomeLost |-> canBecomeLost,
     m_LastUseFrameIndex |-> currentFrameIndex,
     m_MapCount |-> IF mapped THEN MAP_COUNT_FLAG_PERSISTENT_MAP ELSE 0,
     m_hMemory |-> VK_NULL_HANDLE]

InitDedicatedAllocation(currentFrameIndex, hMemory, size, suballocationType, mapped) ==
    [m_Type |-> "DEDICATED", m_Block |-> 0, m_Offset |-> 0, m_Alignment |-> 1,
     m_Size |-> size, m_SuballocationType |-> suballocationType,
     m_CanBecomeLost |-> FALSE,
     m_LastUseFrameIndex |-> currentFrameIndex,
     m_MapCount |-> IF mapped THEN MAP_COUNT_FLAG_PERSISTENT_MAP ELSE 0,
     m_hMemory |-> hMemory]

CanBecomeLost(alloc) ==
    CASE alloc.m_Type = "BLOCK" -> alloc.m_CanBecomeLost
      [] alloc.m_Type = "DEDICATED" -> FALSE
      [] OTHER -> FALSE

GetLastUseFrameIndex(alloc) == alloc.m_LastUseFrameIndex

IsPersistentMap(alloc) ==
    (alloc.m_MapCount \div MAP_COUNT_FLAG_PERSISTENT_MAP) % 2 = 1

\* The test both MakeLost and CheckAllocation make, in uint32_t arithmetic.
LastUsePlusInUse(alloc, frameInUseCount) ==
    (GetLastUseFrameIndex(alloc) + frameInUseCount) % FrameMod

\* VmaAllocation_T::CompareExchangeLastUseFrameIndex: returns [ret, alloc,
\* expected], expected being overwritten with the value found when the
\* exchange fails.
CompareExchangeLastUseFrameIndex(alloc, expected, desired) ==
    IF alloc.m_LastUseFrameIndex = expected
    THEN [ret |-> TRUE, alloc |-> [alloc EXCEPT !.m_LastUseFrameIndex = desired],
          expected |-> expected]
    ELSE [ret |-> FALSE, alloc |-> alloc, expected |-> alloc.m_LastUseFrameIndex]

\* One turn of the for(;;) loop of VmaAllocation_T::MakeLost.  Returns [done,
\* ret, alloc, localLastUseFrameIndex]: done tells that the loop was left with
\* ret; the sum is a uint32_t.
MakeLostIteration(alloc, currentFrameIndex, frameInUseCount, localLastUseFrameIndex) ==
    LET Exchanged(cas) ==
            [done |-> cas.ret, ret |-> cas.ret, alloc |-> cas.alloc,
             localLastUseFrameIndex |-> cas.expected]
    IN  IF localLastUseFrameIndex = VMA_FRAME_INDEX_LOST
        THEN [done |-> TRUE, ret |-> FALSE, alloc |-> alloc,
              localLastUseFrameIndex |-> localLastUseFrameIndex]
        ELSE IF (localLastUseFrameIndex + frameInUseCount) % FrameMod >= currentFrameIndex
        THEN [done |-> TRUE, ret |-> FALSE, alloc |-> alloc,
              localLastUseFrameIndex |-> localLastUseFrameIndex]
        ELSE Exchanged(CompareExchangeLastUseFrameIndex(alloc, localLastUseFrameIndex,
                           VMA_FRAME_INDEX_LOST))

\* VmaAllocation_T::MakeLost run without another thread in between: the
\* compare-exchange finds the value that was loaded, so the loop is left in
\* its first turn (a spurious failure of the weak exchange only repeats the
\* turn with the same value).  Returns [ret, alloc].
MakeLost(alloc, currentFrameIndex, frameInUseCount) ==
    LET Left(it) == [ret |-> it.ret, alloc |-> it.alloc]
    IN  Left(MakeLostIteration(alloc, currentFrameIndex, frameInUseCount,
                 GetLastUseFrameIndex(alloc)))

TouchIteration_NoLostTest(alloc, localCurrFrameIndex, localLastUseFrameIndex) ==
    IF localLastUseFrameIndex = localCurrFrameIndex
    THEN [done |-> TRUE, ret |-> TRUE, alloc |-> alloc,
          localLastUseFrameIndex |-> localLastUseFrameIndex]
    ELSE [done |-> FALSE, ret |-> FALSE,
          alloc |-> [alloc EXCEPT !.m_LastUseFrameIndex = localCurrFrameIndex],
          localLastUseFrameIndex |-> localCurrFrameIndex]

\* One turn of the for(;;) loop that TouchAllocation and GetAllocationInfo run
\* for an allocation that can become lost.  Returns [done, ret, alloc,
\* localLastUseFrameIndex]: done tells that the loop was left, ret is then
\* whether the allocation was found not lost.
TouchIteration(alloc, localCurrFrameIndex, localLastUseFrameIndex) ==
    LET Exchanged(cas) ==
            [done |-> FALSE, ret |-> FALSE, alloc |-> cas.alloc,
             localLastUseFrameIndex |->
                 IF cas.ret THEN localCurrFrameIndex ELSE cas.expected]
    IN  IF localLastUseFrameIndex = VMA_FRAME_INDEX_LOST
        THEN [done |-> TRUE, ret |-> FALSE, alloc |-> alloc,
              localLastUseFrameIndex |-> localLastUseFrameIndex]
        ELSE IF localLastUseFrameIndex = localCurrFrameIndex
        THEN [done |-> TRUE, ret |-> TRUE, alloc |-> alloc,
              localLastUseFrameIndex |-> localLastUseFrameIndex]
        ELSE Exchanged(CompareExchangeLastUseFrameIndex(alloc, localLastUseFrameIndex,
                           localCurrFrameIndex))

\* The loop run without another thread in between.  Returns [ret, alloc].
RECURSIVE TouchLoop(_, _, _)
TouchLoop(alloc, localCurrFrameIndex, localLastUseFrameIndex) ==
    LET Turn(it) ==
            IF it.done THEN [ret |-> it.ret, alloc |-> it.alloc]
            ELSE TouchLoop(it.alloc, localCurrFrameIndex, it.localLastUseFrameIndex)
    IN  Turn(TouchIteration(alloc, localCurrFrameIndex, localLastUseFrameIndex))

\* VmaAllocator_T::TouchAllocation.  Returns [ret, alloc].
TouchAllocation(alloc, currentFrameIndex) ==
    IF CanBecomeLost(alloc)
    THEN TouchLoop(alloc, currentFrameIndex, GetLastUseFrameIndex(alloc))
    ELSE [ret |-> TRUE, alloc |-> alloc]

\* VmaAllocation_T::GetMemory: the VkDeviceMemory of the block, which the model
\* names like the block, or the allocation's own.
GetMemory(alloc) ==
    IF alloc.m_Type = "BLOCK" THEN alloc.m_Block ELSE alloc.m_hMemory

GetOffset(alloc) ==
    IF alloc.m_Type = "BLOCK" THEN alloc.m_Offset ELSE 0

\* VmaAllocator_T::GetAllocationInfo.  Returns [info, alloc], info being the
\* deviceMemory, offset and size of VmaAllocationInfo.
GetAllocationInfo(alloc, currentFrameIndex) ==
    LET Found(t) ==
            [info |-> IF t.ret
                      THEN [deviceMemory |-> GetMemory(t.alloc),
                            offset |-> GetOffset(t.alloc), size |-> t.alloc.m_Size]
                      ELSE [deviceMemory |-> VK_NULL_HANDLE, offset |-> 0,
                            size |-> t.alloc.m_Size],
             alloc |-> t.alloc]
    IN  IF CanBecomeLost(alloc)
        THEN Found(TouchLoop(alloc, currentFrameIndex, GetLastUseFrameIndex(alloc)))
        ELSE [info |-> [deviceMemory |-> GetMemory(alloc), offset |-> GetOffset(alloc),
                        size |-> alloc.m_Size],
              alloc |-> alloc]

(***************************************************************************)
(* VmaBlockMetadata.                                                       *)
(***************************************************************************)
VmaBlockMetadata_Init(size) ==
    [m_Size |-> size, m_FreeCount |-> 1, m_SumFreeSize |-> size,
     m_Suballocations |->
        << [offset |-> 0, size |-> size, hAllocation |-> VK_NULL_HANDLE,
            type |-> VMA_SUBALLOCATION_TYPE_FREE] >>,
     m_FreeSuballocationsBySize |-> << 0 >>]

IsEmpty(meta) ==
    Len(meta.m_Suballocations) = 1 /\ meta.m_FreeCount = 1

GetSumFreeSize(meta) == meta.m_SumFreeSize

\* The position of the node an iterator points to, 0 when it dangles.
ItemIndex(meta, it) ==
    LET S == {i \in 1..Len(meta.m_Suballocations) : meta.m_Suballocations[i].offset = it}
    IN  IF S = {} THEN 0 ELSE CHOOSE i \in S : \A j \in S : i <= j

ItemSize(meta, it) ==
    IF ItemIndex(meta, it) = 0 THEN 0
    ELSE meta.m_Suballocations[ItemIndex(meta, it)].size

\* it->size of every element of m_FreeSuballocationsBySize, in vector order.
FreeSizes(meta) ==
    [k \in 1..Len(meta.m_FreeSuballocationsBySize) |->
        ItemSize(meta, meta.m_FreeSuballocationsBySize[k])]

VmaVectorInsertSorted_AtEnd(meta, item) ==
    Append(meta.m_FreeSuballocationsBySize, item.offset)

VmaVectorInsertSorted(meta, item) ==
    LET vec == meta.m_FreeSuballocationsBySize
        indexToInsert == VmaBinaryFindFirstNotLess(FreeSizes(meta), 0, Len(vec), item.size)
    IN  VmaVectorInsert(vec, indexToInsert, item.offset)

RegisterFreeSuballocation_NoThreshold(meta, i) ==
    [meta EXCEPT !.m_FreeSuballocationsBySize =
        VmaVectorInsertSorted(meta, meta.m_Suballocations[i])]

RegisterFreeSuballocation(meta, i) ==
    LET item == meta.m_Suballocations[i]
    IN  IF item.size >= VMA_MIN_FREE_SUBALLOCATION_SIZE_TO_REGISTER
        THEN IF Len(meta.m_FreeSuballocationsBySize) = 0
             THEN [meta EXCEPT !.m_FreeSuballocationsBySize = Append(@, item.offset)]
             ELSE [meta EXCEPT !.m_FreeSuballocationsBySize =
                                   VmaVectorInsertSorted(meta, item)]
        ELSE meta

UnregisterFreeSuballocation_Forgets(meta, i) == meta

UnregisterFreeSuballocation(meta, i) ==
    LET item == meta.m_Suballocations[i]
        vec == meta.m_FreeSuballocationsBySize
        \* hits: the indices from the first of not smaller size on that hold item
        Remove(hits) ==
            IF item.size >= VMA_MIN_FREE_SUBALLOCATION_SIZE_TO_REGISTER /\ hits # {}
            THEN [meta EXCEPT !.m_FreeSuballocationsBySize =
                     VmaVectorRemove(vec, FirstOf(hits) - 1)]
            ELSE meta
    IN  Remove({k \in (VmaBinaryFindFirstNotLess(FreeSizes(meta), 0, Len(vec),
                                                  item.size) + 1)..Len(vec) :
                   vec[k] = item.offset})

MergeFreeWithNext_KeepsCount(meta, i) ==
    [meta EXCEPT
        !.m_Suballocations =
            [SubSeq(@, 1, i) EXCEPT ![i].size = @ + meta.m_Suballocations[i + 1].size]
            \o SubSeq(@, i + 2, Len(@))]

MergeFreeWithNext(meta, i) ==
    [meta EXCEPT
        !.m_Suballocations =
            [SubSeq(@, 1, i) EXCEPT
                ![i].size = VkDeviceSize(@ + meta.m_Suballocations[i + 1].size)]
            \o SubSeq(@, i + 2, Len(@)),
        !.m_FreeCount = @ - 1]

\* Marks the node free without merging it with its neighbours.
FreeSuballocation_NoMerge(meta, suballocItem) ==
    [meta |-> RegisterFreeSuballocation(
                 [meta EXCEPT
                     !.m_Suballocations[suballocItem].type = VMA_SUBALLOCATION_TYPE_FREE,
                     !.m_Suballocations[suballocItem].hAllocation = VK_NULL_HANDLE,
                     !.m_FreeCount = @ + 1,
                     !.m_SumFreeSize = @ + meta.m_Suballocations[suballocItem].size],
                 suballocItem),
     item |-> suballocItem]

\* Merges the freed node with a free next node only.
FreeSuballocation_NoMergePrev(meta, suballocItem) ==
    LET subs == meta.m_Suballocations
        m1 == [meta EXCEPT
                  !.m_Suballocations[suballocItem].type = VMA_SUBALLOCATION_TYPE_FREE,
                  !.m_Suballocations[suballocItem].hAllocation = VK_NULL_HANDLE,
                  !.m_FreeCount = @ + 1,
                  !.m_SumFreeSize = @ + subs[suballocItem].size]
    IN  [meta |-> RegisterFreeSuballocation(
                     IF suballocItem < Len(subs)
                        /\ subs[suballocItem + 1].type = VMA_SUBALLOCATION_TYPE_FREE
                     THEN MergeFreeWithNext(
                              UnregisterFreeSuballocation(m1, suballocItem + 1),
                              suballocItem)
                     ELSE m1,
                     suballocItem),
         item |-> suballocItem]

\* Returns the metadata and the iterator the code returns.
FreeSuballocation(meta, suballocItem) ==
    LET subs == meta.m_Suballocations
        m1 == [meta EXCEPT
                  !.m_Suballocations[suballocItem].type = VMA_SUBALLOCATION_TYPE_FREE,
                  !.m_Suballocations[suballocItem].hAllocation = VK_NULL_HANDLE,
                  !.m_FreeCount = @ + 1,
                  !.m_SumFreeSize = VkDeviceSize(@ + subs[suballocItem].size)]
        mergeWithNext == suballocItem < Len(subs)
                         /\ subs[suballocItem + 1].type = VMA_SUBALLOCATION_TYPE_FREE
        mergeWithPrev == suballocItem > 1
                         /\ subs[suballocItem - 1].type = VMA_SUBALLOCATION_TYPE_FREE
        \* m2: the metadata after the merge with the next node, if any
        MergePrev(m2) ==
            IF mergeWithPrev
            THEN [meta |-> RegisterFreeSuballocation(
                               MergeFreeWithNext(
                                   UnregisterFreeSuballocation(m2, suballocItem - 1),
                                   suballocItem - 1),
                               suballocItem - 1),
                  item |-> suballocItem - 1]
            ELSE [meta |-> RegisterFreeSuballocation(m2, suballocItem),
                  item |-> suballocItem]
    IN  MergePrev(IF mergeWithNext
                  THEN MergeFreeWithNext(
                           UnregisterFreeSuballocation(m1, suballocItem + 1), suballocItem)
                  ELSE m1)

\* request.item is the position of the free node, request.offset the offset
\* CheckAllocation chose inside it.
Alloc(meta, request, type, allocSize, hAllocation) ==
    LET i == request.item
        suballoc == meta.m_Suballocations[i]
        paddingBegin == VkDeviceSize(request.offset - suballoc.offset)
        paddingEnd == VkDeviceSize(suballoc.size - paddingBegin - allocSize)
        \* m3: the metadata after the free node for the end padding was inserted
        PadBegin(m3) ==
            [(IF paddingBegin # 0
              THEN RegisterFreeSuballocation(
                       [m3 EXCEPT !.m_Suballocations =
                           VmaVectorInsert(@, i - 1,
                               [offset |-> VkDeviceSize(request.offset - paddingBegin),
                                size |-> paddingBegin,
                                hAllocation |-> VK_NULL_HANDLE,
                                type |-> VMA_SUBALLOCATION_TYPE_FREE])],
                       i)
              ELSE m3)
             EXCEPT
                !.m_FreeCount = @ - 1 + (IF paddingBegin > 0 THEN 1 ELSE 0)
                                      + (IF paddingEnd > 0 THEN 1 ELSE 0),
                !.m_SumFreeSize = VkDeviceSize(@ - allocSize)]
        \* m2: the metadata after the node was unregistered and taken
        PadEnd(m2) ==
            PadBegin(IF paddingEnd # 0
                     THEN RegisterFreeSuballocation(
                              [m2 EXCEPT !.m_Suballocations =
                                  VmaVectorInsert(@, i,
                                      [offset |-> VkDeviceSize(request.offset + allocSize),
                                       size |-> paddingEnd,
                                       hAllocation |-> VK_NULL_HANDLE,
                                       type |-> VMA_SUBALLOCATION_TYPE_FREE])],
                              i + 1)
                     ELSE m2)
    IN  PadEnd([UnregisterFreeSuballocation(meta, i) EXCEPT !.m_Suballocations[i] =
                  [offset |-> request.offset, size |-> allocSize,
                   hAllocation |-> hAllocation, type |-> type]])

\* The first node that holds the allocation, 0 for "Not found!".
FindAllocation(meta, allocation) ==
    LET S == {i \in 1..Len(meta.m_Suballocations) :
                 meta.m_Suballocations[i].hAllocation = allocation}
    IN  IF S = {} THEN 0 ELSE CHOOSE i \in S : \A j \in S : i <= j

Free(meta, allocation) ==
    IF FindAllocation(meta, allocation) = 0 THEN meta
    ELSE FreeSuballocation(meta, FindAllocation(meta, allocation)).meta

FreeAtOffset(meta, offset) ==
    IF ItemIndex(meta, offset) = 0 THEN meta
    ELSE FreeSuballocation(meta, ItemIndex(meta, offset)).meta

\* The test without CanBecomeLost(): any allocation old enough passes.
CanBeMadeLostNow_AnyAllocation(allocs, hAllocation, currentFrameIndex, frameInUseCount) ==
    LastUsePlusInUse(allocs[hAllocation], frameInUseCount) < currentFrameIndex

\* suballocItem->hAllocation->CanBecomeLost() &&
\* suballocItem->hAllocation->GetLastUseFrameIndex() + frameInUseCount < currentFrameIndex
CanBeMadeLostNow(allocs, hAllocation, currentFrameIndex, frameInUseCount) ==
    /\ CanBecomeLost(allocs[hAllocation])
    /\ LastUsePlusInUse(allocs[hAllocation], frameInUseCount) < currentFrameIndex

\* No test of the previous suballocations: the offset is never aligned up to
\* the granularity.
PrevGranularityConflict_Never(subs, prev, offset, bufferImageGranularity, allocType) ==
    FALSE

\* The loop over the previous suballocations: TRUE when one on the same page
\* conflicts.  prev is the position prevSuballocItem has after its decrement.
RECURSIVE PrevGranularityConflict(_, _, _, _, _)
PrevGranularityConflict(subs, prev, offset, bufferImageGranularity, allocType) ==
    IF prev < 1 THEN FALSE
    ELSE IF VmaBlocksOnSamePage(subs[prev].offset, subs[prev].size, offset,
                                bufferImageGranularity)
         THEN IF VmaIsBufferImageGranularityConflict(subs[prev].type, allocType)
              THEN TRUE
              ELSE PrevGranularityConflict(subs, prev - 1, offset,
                                           bufferImageGranularity, allocType)
         ELSE FALSE

\* The loop over the next suballocations when nothing may be made lost: TRUE
\* when one on the same page conflicts.
RECURSIVE NextGranularityConflict(_, _, _, _, _, _)
NextGranularityConflict(subs, next, offset, allocSize, bufferImageGranularity, allocType) ==
    IF next > Len(subs) THEN FALSE
    ELSE IF VmaBlocksOnSamePage(offset, allocSize, subs[next].offset,
                                bufferImageGranularity)
         THEN IF VmaIsBufferImageGranularityConflict(allocType, subs[next].type)
              THEN TRUE
              ELSE NextGranularityConflict(subs, next + 1, offset, allocSize,
                                           bufferImageGranularity, allocType)
         ELSE FALSE

\* "Advance lastSuballocItem until desired size is reached": acc carries
\* itemsToMakeLostCount, sumFreeSize and sumItemSize.
RECURSIVE AdvanceLastSuballocItem(_, _, _, _, _, _, _)
AdvanceLastSuballocItem(subs, allocs, currentFrameIndex, frameInUseCount, lastSuballocItem, remainingSize, acc) ==
    IF remainingSize > 0
    THEN LET next == lastSuballocItem + 1
         IN  IF next > Len(subs) THEN [acc EXCEPT !.ret = FALSE]
             ELSE LET rest == IF subs[next].size < remainingSize
                              THEN remainingSize - subs[next].size ELSE 0
                  IN  IF subs[next].type = VMA_SUBALLOCATION_TYPE_FREE
                      THEN AdvanceLastSuballocItem(subs, allocs, currentFrameIndex,
                               frameInUseCount, next, rest,
                               [acc EXCEPT !.sumFreeSize = @ + subs[next].size,
                                           !.lastSuballocItem = next])
                      ELSE IF CanBeMadeLostNow(allocs, subs[next].hAllocation,
                                               currentFrameIndex, frameInUseCount)
                      THEN AdvanceLastSuballocItem(subs, allocs, currentFrameIndex,
                               frameInUseCount, next, rest,
                               [acc EXCEPT !.itemsToMakeLostCount = @ + 1,
                                           !.sumItemSize = @ + subs[next].size,
                                           !.lastSuballocItem = next])
                      ELSE [acc EXCEPT !.ret = FALSE]
    ELSE acc

\* The loop over the next suballocations when others may be made lost: every
\* conflicting one on the same page is counted, or the check fails.
RECURSIVE NextGranularityMakeLost(_, _, _, _, _, _, _, _, _, _)
NextGranularityMakeLost(subs, allocs, currentFrameIndex, frameInUseCount, next, offset, allocSize, bufferImageGranularity, allocType, acc) ==
    IF next > Len(subs) THEN acc
    ELSE IF VmaBlocksOnSamePage(offset, allocSize, subs[next].offset,
                                bufferImageGranularity)
         THEN IF VmaIsBufferImageGranularityConflict(allocType, subs[next].type)
              THEN IF CanBeMadeLostNow(allocs, subs[next].hAllocation,
                                       currentFrameIndex, frameInUseCount)
                   THEN NextGranularityMakeLost(subs, allocs, currentFrameIndex,
                            frameInUseCount, next + 1, offset, allocSize,
                            bufferImageGranularity, allocType,
                            [acc EXCEPT !.itemsToMakeLostCount = @ + 1])
                   ELSE [acc EXCEPT !.ret = FALSE]
              ELSE NextGranularityMakeLost(subs, allocs, currentFrameIndex,
                       frameInUseCount, next + 1, offset, allocSize,
                       bufferImageGranularity, allocType, acc)
         ELSE acc

CheckFailed ==
    [ret |-> FALSE, offset |-> 0, itemsToMakeLostCount |-> 0,
     sumFreeSize |-> 0, sumItemSize |-> 0, lastSuballocItem |-> 0]

\* The offset after alignment and after the granularity alignment.
CheckOffset(subs, suballocItem, bufferImageGranularity, allocAlignment, allocType) ==
    LET start == subs[suballocItem].offset
                 + (IF VMA_DEBUG_MARGIN > 0 /\ suballocItem # 1
                    THEN VMA_DEBUG_MARGIN ELSE 0)
        aligned == VmaAlignUp(start, VMA_MAX(allocAlignment, VMA_DEBUG_ALIGNMENT))
    IN  IF bufferImageGranularity > 1
           /\ PrevGranularityConflict(subs, suballocItem - 1, aligned,
                                      bufferImageGranularity, allocType)
        THEN VmaAlignUp(aligned, bufferImageGranularity)
        ELSE aligned

\* The branch of CheckAllocation taken when canMakeOtherLost.
CheckAllocationMakeLost(meta, allocs, currentFrameIndex, frameInUseCount, bufferImageGranularity, allocSize, allocAlignment, allocType, suballocItem) ==
    LET subs == meta.m_Suballocations
        item == subs[suballocItem]
        isFree == item.type = VMA_SUBALLOCATION_TYPE_FREE
        requiredEndMargin == IF suballocItem < Len(subs) THEN VMA_DEBUG_MARGIN ELSE 0
        Result(acc2) == IF acc2.ret THEN acc2 ELSE CheckFailed
        \* acc1: the counts after lastSuballocItem was advanced
        NextSuballocations(acc1) ==
            IF ~acc1.ret THEN CheckFailed
            ELSE IF bufferImageGranularity > 1
            THEN Result(NextGranularityMakeLost(subs, allocs, currentFrameIndex,
                            frameInUseCount, acc1.lastSuballocItem + 1, acc1.offset,
                            allocSize, bufferImageGranularity, allocType, acc1))
            ELSE acc1
        \* offset: *pOffset after the alignments
        Span(offset) ==
            LET paddingBegin == offset - item.offset
                totalSize == paddingBegin + allocSize + requiredEndMargin
                acc0 == [ret |-> TRUE, offset |-> offset,
                         itemsToMakeLostCount |-> IF isFree THEN 0 ELSE 1,
                         sumFreeSize |-> IF isFree THEN item.size ELSE 0,
                         sumItemSize |-> IF isFree THEN 0 ELSE item.size,
                         lastSuballocItem |-> suballocItem]
            IN  IF offset >= item.offset + item.size THEN CheckFailed
                ELSE IF item.offset + totalSize > meta.m_Size THEN CheckFailed
                ELSE NextSuballocations(
                         IF totalSize > item.size
                         THEN AdvanceLastSuballocItem(subs, allocs, currentFrameIndex,
                                  frameInUseCount, suballocItem, totalSize - item.size,
                                  acc0)
                         ELSE acc0)
    IN  IF ~isFree /\ ~CanBeMadeLostNow(allocs, item.hAllocation,
                                        currentFrameIndex, frameInUseCount)
        THEN CheckFailed
        ELSE IF meta.m_Size - item.offset < allocSize THEN CheckFailed
        ELSE Span(CheckOffset(subs, suballocItem, bufferImageGranularity,
                              allocAlignment, allocType))

\* The branch of CheckAllocation taken when nothing may be made lost.
CheckAllocationFree(meta, bufferImageGranularity, allocSize, allocAlignment, allocType, suballocItem) ==
    LET subs == meta.m_Suballocations
        suballoc == subs[suballocItem]
        requiredEndMargin == IF suballocItem < Len(subs) THEN VMA_DEBUG_MARGIN ELSE 0
        \* offset: *pOffset after the alignments
        Fit(offset) ==
            IF (offset - suballoc.offset) + allocSize + requiredEndMargin > suballoc.size
            THEN CheckFailed
            ELSE IF bufferImageGranularity > 1
                    /\ NextGranularityConflict(subs, suballocItem + 1, offset, allocSize,
                                               bufferImageGranularity, allocType)
            THEN CheckFailed
            ELSE [ret |-> TRUE, offset |-> offset, itemsToMakeLostCount |-> 0,
                  sumFreeSize |-> suballoc.size, sumItemSize |-> 0,
                  lastSuballocItem |-> suballocItem]
    IN  IF suballoc.size < allocSize THEN CheckFailed
        ELSE Fit(CheckOffset(subs, suballocItem, bufferImageGranularity,
                             allocAlignment, allocType))

CheckAllocation(meta, allocs, currentFrameIndex, frameInUseCount, bufferImageGranularity, allocSize, allocAlignment, allocType, suballocItem, canMakeOtherLost) ==
    IF canMakeOtherLost
    THEN CheckAllocationMakeLost(meta, allocs, currentFrameIndex, frameInUseCount,
             bufferImageGranularity, allocSize, allocAlignment, allocType, suballocItem)
    ELSE CheckAllocationFree(meta, bufferImageGranularity, allocSize, allocAlignment,
             allocType, suballocItem)

\* VmaAllocationRequest; item is the position of the node.
NoRequest ==
    [offset |-> 0, sumFreeSize |-> 0, sumItemSize |-> 0, item |-> 0,
     itemsToMakeLostCount |-> 0]

RequestOf(check, item) ==
    [offset |-> check.offset, sumFreeSize |-> check.sumFreeSize,
     sumItemSize |-> check.sumItemSize, item |-> item,
     itemsToMakeLostCount |-> check.itemsToMakeLostCount]

CalcCost(request) ==
    request.sumItemSize + request.itemsToMakeLostCount * VMA_LOST_ALLOCATION_COST

CreateFirstAllocationRequest(meta) ==
    [NoRequest EXCEPT !.sumFreeSize = meta.m_SumFreeSize, !.item = 1]

\* The brute-force loop of CreateAllocationRequest from suballocIt on; best is
\* *pAllocationRequest.
RECURSIVE BruteForceRequest(_, _, _, _, _, _, _, _, _, _)
BruteForceRequest(meta, allocs, currentFrameIndex, frameInUseCount, bufferImageGranularity, allocSize, allocAlignment, allocType, suballocIt, best) ==
    IF suballocIt > Len(meta.m_Suballocations) THEN best
    ELSE LET s == meta.m_Suballocations[suballocIt]
             Better(check) ==
                 IF /\ \/ s.type = VMA_SUBALLOCATION_TYPE_FREE
                       \/ CanBecomeLost(allocs[s.hAllocation])
                    /\ check.ret
                    /\ CalcCost(RequestOf(check, suballocIt)) < CalcCost(best)
                 THEN RequestOf(check, suballocIt)
                 ELSE best
         IN  BruteForceRequest(meta, allocs, currentFrameIndex, frameInUseCount,
                 bufferImageGranularity, allocSize, allocAlignment, allocType,
                 suballocIt + 1,
                 Better(CheckAllocation(meta, allocs, currentFrameIndex,
                            frameInUseCount, bufferImageGranularity, allocSize,
                            allocAlignment, allocType, suballocIt, TRUE)))

\* CreateAllocationRequest as built with VMA_BEST_FIT 0: the free vector is
\* walked from its biggest element down.
CreateAllocationRequest_WorstFit(meta, allocs, currentFrameIndex, frameInUseCount, bufferImageGranularity, allocSize, allocAlignment, allocType, canMakeOtherLost) ==
    LET vec == meta.m_FreeSuballocationsBySize
        LastOf(S) == CHOOSE k \in S : \A j \in S : j <= k
        Search(fits) ==
            IF fits # {}
            THEN [ret |-> TRUE,
                  request |-> RequestOf(
                      CheckAllocation(meta, allocs, currentFrameIndex, frameInUseCount,
                          bufferImageGranularity, allocSize, allocAlignment, allocType,
                          ItemIndex(meta, vec[LastOf(fits)]), FALSE),
                      ItemIndex(meta, vec[LastOf(fits)]))]
            ELSE [ret |-> FALSE, request |-> NoRequest]
    IN  IF ~canMakeOtherLost /\ meta.m_SumFreeSize < allocSize
        THEN [ret |-> FALSE, request |-> NoRequest]
        ELSE Search({k \in 1..Len(vec) :
                        CheckAllocation(meta, allocs, currentFrameIndex, frameInUseCount,
                            bufferImageGranularity, allocSize, allocAlignment, allocType,
                            ItemIndex(meta, vec[k]), FALSE).ret})

\* Returns [ret, request].  With VMA_BEST_FIT the free vector is walked from
\* the first element not smaller than allocSize and the first that passes
\* CheckAllocation is taken.
CreateAllocationRequest(meta, allocs, currentFrameIndex, frameInUseCount, bufferImageGranularity, allocSize, allocAlignment, allocType, canMakeOtherLost) ==
    LET vec == meta.m_FreeSuballocationsBySize
        Taken(item, check) == [ret |-> TRUE, request |-> RequestOf(check, item)]
        BruteForce(best) ==
            IF best.sumItemSize # VK_WHOLE_SIZE
            THEN [ret |-> TRUE, request |-> best]
            ELSE [ret |-> FALSE, request |-> NoRequest]
        \* fits: the indices of the free vector that pass CheckAllocation
        Search(fits) ==
            IF fits # {}
            THEN Taken(ItemIndex(meta, vec[FirstOf(fits)]),
                       CheckAllocation(meta, allocs, currentFrameIndex, frameInUseCount,
                           bufferImageGranularity, allocSize, allocAlignment, allocType,
                           ItemIndex(meta, vec[FirstOf(fits)]), FALSE))
            ELSE IF canMakeOtherLost
            THEN BruteForce(
                     BruteForceRequest(meta, allocs, currentFrameIndex, frameInUseCount,
                         bufferImageGranularity, allocSize, allocAlignment, allocType, 1,
                         [NoRequest EXCEPT !.sumFreeSize = VK_WHOLE_SIZE,
                                           !.sumItemSize = VK_WHOLE_SIZE]))
            ELSE [ret |-> FALSE, request |-> NoRequest]
    IN  IF ~canMakeOtherLost /\ meta.m_SumFreeSize < allocSize
        THEN [ret |-> FALSE, request |-> NoRequest]
        ELSE Search({k \in (VmaBinaryFindFirstNotLess(FreeSizes(meta), 0, Len(vec),
                                                      allocSize) + 1)..Len(vec) :
                        CheckAllocation(meta, allocs, currentFrameIndex, frameInUseCount,
                            bufferImageGranularity, allocSize, allocAlignment, allocType,
                            ItemIndex(meta, vec[k]), FALSE).ret})

\* Returns [ret, meta, allocs, request].  The loop takes the node at
\* request.item, or the one after it when that one is free, whatever
\* CheckAllocation counted.  CheckAllocation counts no more nodes than lie
\* between request.item and end(), so the loop stays inside the list; the first
\* test only keeps the operator total.
RECURSIVE MakeRequestedAllocationsLost(_, _, _, _, _)
MakeRequestedAllocationsLost(meta, allocs, currentFrameIndex, frameInUseCount, request) ==
    IF request.itemsToMakeLostCount > 0
    THEN LET subs == meta.m_Suballocations
             item == IF subs[request.item].type = VMA_SUBALLOCATION_TYPE_FREE
                     THEN request.item + 1 ELSE request.item
             Lose(h, lost, freed) ==
                 IF lost.ret
                 THEN MakeRequestedAllocationsLost(freed.meta,
                          [allocs EXCEPT ![h] = lost.alloc],
                          currentFrameIndex, frameInUseCount,
                          [request EXCEPT !.item = freed.item,
                                          !.itemsToMakeLostCount = @ - 1])
                 ELSE [ret |-> FALSE, meta |-> meta, allocs |-> allocs,
                       request |-> [request EXCEPT !.item = item]]
         IN  IF item > Len(subs) \/ subs[item].hAllocation = VK_NULL_HANDLE
             THEN [ret |-> FALSE, meta |-> meta, allocs |-> allocs, request |-> request]
             ELSE Lose(subs[item].hAllocation,
                       MakeLost(allocs[subs[item].hAllocation], currentFrameIndex,
                                frameInUseCount),
                       FreeSuballocation(meta, item))
    ELSE [ret |-> TRUE, meta |-> meta, allocs |-> allocs, request |-> request]

\* The loop of MakeAllocationsLost from it on.  Returns [meta, allocs,
\* lostAllocationCount].
RECURSIVE MakeAllocationsLostFrom(_, _, _, _, _, _)
MakeAllocationsLostFrom(meta, allocs, currentFrameIndex, frameInUseCount, it, lostAllocationCount) ==
    IF it > Len(meta.m_Suballocations)
    THEN [meta |-> meta, allocs |-> allocs, lostAllocationCount |-> lostAllocationCount]
    ELSE LET s == meta.m_Suballocations[it]
             Lose(lost, freed) ==
                 IF lost.ret
                 THEN MakeAllocationsLostFrom(freed.meta,
                          [allocs EXCEPT ![s.hAllocation] = lost.alloc],
                          currentFrameIndex, frameInUseCount, freed.item + 1,
                          lostAllocationCount + 1)
                 ELSE MakeAllocationsLostFrom(meta, allocs, currentFrameIndex,
                          frameInUseCount, it + 1, lostAllocationCount)
         IN  IF s.type # VMA_SUBALLOCATION_TYPE_FREE
                /\ CanBecomeLost(allocs[s.hAllocation])
             THEN Lose(MakeLost(allocs[s.hAllocation], currentFrameIndex,
                                frameInUseCount),
                       FreeSuballocation(meta, it))
             ELSE MakeAllocationsLostFrom(meta, allocs, currentFrameIndex,
                      frameInUseCount, it + 1, lostAllocationCount)

\* MakeAllocationsLost without the FreeSuballocation: the allocations are
\* marked lost and their suballocations stay used.
MakeAllocationsLost_KeepsSuballocations(meta, allocs, currentFrameIndex, frameInUseCount) ==
    LET hs == {meta.m_Suballocations[i].hAllocation : i \in
                  {i \in 1..Len(meta.m_Suballocations) :
                      /\ meta.m_Suballocations[i].type # VMA_SUBALLOCATION_TYPE_FREE
                      /\ CanBecomeLost(allocs[meta.m_Suballocations[i].hAllocation])
                      /\ MakeLost(allocs[meta.m_Suballocations[i].hAllocation],
                                  currentFrameIndex, frameInUseCount).ret}}
    IN  [meta |-> meta,
         allocs |-> [h \in DOMAIN allocs |->
                        IF h \in hs
                        THEN MakeLost(allocs[h], currentFrameIndex, frameInUseCount).alloc
                        ELSE allocs[h]],
         lostAllocationCount |-> Cardinality(hs)]

MakeAllocationsLost(meta, allocs, currentFrameIndex, frameInUseCount) ==
    MakeAllocationsLostFrom(meta, allocs, currentFrameIndex, frameInUseCount, 1, 0)

(***************************************************************************)
(* VmaDeviceMemoryBlock and the VmaBlockVector of one custom pool.  The    *)
(* operators take and return bv, the part of the state a call on the       *)
(* vector works on under its mutex: [m_Blocks, m_HasEmptyBlock, allocs].   *)
(* A block is identified by id, the address of the VmaDeviceMemoryBlock;   *)
(* vkAllocateMemory and vkMapMemory are the results the device returns to  *)
(* the call.                                                               *)
(***************************************************************************)
m_PreferredBlockSize == 32
m_MaxBlockCount == 2
m_BufferImageGranularity == 32

\* What the device holds for a VkDeviceMemory: whether it is host-mapped.
\* vkMapMemory of memory that is mapped and vkUnmapMemory of memory that is
\* not are invalid usage, after which nothing is known about the mapping.
VkMapMemory(vkMapState, result) ==
    IF vkMapState # "unmapped" THEN "invalid"
    ELSE IF result = "VK_SUCCESS" THEN "mapped"
    ELSE "unmapped"

VkUnmapMemory(vkMapState) ==
    IF vkMapState # "mapped" THEN "invalid" ELSE "unmapped"

\* vkMapState is the device's state of m_hMemory, not a member of the block.
VmaDeviceMemoryBlock_Init(id, newSize) ==
    [id |-> id, m_Metadata |-> VmaBlockMetadata_Init(newSize), m_MapCount |-> 0,
     vkMapState |-> "unmapped"]

\* Map with a call of vkMapMemory whatever m_MapCount is.
Map_AlwaysCallsDevice(block, count, vkMapMemory) ==
    IF count = 0 THEN [res |-> "VK_SUCCESS", block |-> block]
    ELSE IF vkMapMemory = "VK_SUCCESS"
    THEN [res |-> "VK_SUCCESS",
          block |-> [block EXCEPT !.m_MapCount = @ + count,
                                  !.vkMapState = VkMapMemory(@, vkMapMemory)]]
    ELSE [res |-> vkMapMemory, block |-> block]

\* Returns [res, block].
Map(block, count, vkMapMemory) ==
    IF count = 0 THEN [res |-> "VK_SUCCESS", block |-> block]
    ELSE IF block.m_MapCount # 0
    THEN [res |-> "VK_SUCCESS", block |-> [block EXCEPT !.m_MapCount = @ + count]]
    ELSE IF vkMapMemory = "VK_SUCCESS"
    THEN [res |-> "VK_SUCCESS",
          block |-> [block EXCEPT !.m_MapCount = count,
                                  !.vkMapState = VkMapMemory(@, vkMapMemory)]]
    ELSE [res |-> vkMapMemory,
          block |-> [block EXCEPT !.vkMapState = VkMapMemory(@, vkMapMemory)]]

Unmap(block, count) ==
    IF count = 0 THEN block
    ELSE IF block.m_MapCount >= count
    THEN [block EXCEPT !.m_MapCount = @ - count,
                       !.vkMapState = IF block.m_MapCount = count
                                      THEN VkUnmapMemory(@) ELSE @]
    ELSE block

\* The position in m_Blocks of the block at address id, 0 when there is none.
BlockIndex(blocks, id) ==
    LET S == {i \in 1..Len(blocks) : blocks[i].id = id}
    IN  IF S = {} THEN 0 ELSE CHOOSE i \in S : \A j \in S : i <= j

\* The address operator new returns for a block: one that no block has.
NewBlockId(blocks) ==
    CHOOSE id \in 1..(Len(blocks) + 1) :
        /\ \A i \in 1..Len(blocks) : blocks[i].id # id
        /\ \A other \in 1..(id - 1) : \E i \in 1..Len(blocks) : blocks[i].id = other

VmaBlockVector_Remove(blocks, id) ==
    IF BlockIndex(blocks, id) = 0 THEN blocks
    ELSE VmaVectorRemove(blocks, BlockIndex(blocks, id) - 1)

IncrementallySortBlocks_Never(blocks) == blocks

IncrementallySortBlocks(blocks) ==
    LET S == {i \in 1..(Len(blocks) - 1) :
                 GetSumFreeSize(blocks[i].m_Metadata)
                    > GetSumFreeSize(blocks[i + 1].m_Metadata)}
        Swap(i) == [blocks EXCEPT ![i] = blocks[i + 1], ![i + 1] = blocks[i]]
    IN  IF S = {} THEN blocks ELSE Swap(FirstOf(S))

\* Returns [res, blocks, newBlockIndex].
CreateBlock(blocks, blockSize, vkAllocateMemory) ==
    IF vkAllocateMemory # "VK_SUCCESS"
    THEN [res |-> vkAllocateMemory, blocks |-> blocks, newBlockIndex |-> 0]
    ELSE [res |-> "VK_SUCCESS",
          blocks |-> Append(blocks,
                        VmaDeviceMemoryBlock_Init(NewBlockId(blocks), blockSize)),
          newBlockIndex |-> Len(blocks) + 1]

\* The end of each step of Allocate: Alloc in the block and
\* InitBlockAllocation of the new VmaAllocation_T.
AllocateFromBlock(bv, blockIndex, request, createInfo, currentFrameIndex, hAllocation) ==
    [bv EXCEPT !.m_Blocks[blockIndex].m_Metadata =
                   Alloc(@, request, createInfo.type, createInfo.size, hAllocation),
               !.allocs[hAllocation] =
                   InitBlockAllocation(currentFrameIndex, bv.m_Blocks[blockIndex].id,
                       request.offset, createInfo.alignment, createInfo.size,
                       createInfo.type, createInfo.mapped, createInfo.canBecomeLost)]

\* if(mapped) pBlock->Map(1): returns [res, block].
MapIfMapped(block, mapped, vkMapMemory) ==
    IF mapped THEN Map(block, 1, vkMapMemory)
    ELSE [res |-> "VK_SUCCESS", block |-> block]

\* if(pBlock->m_Metadata.IsEmpty()) m_HasEmptyBlock = false.
NoLongerEmpty(bv, blockIndex) ==
    IF IsEmpty(bv.m_Blocks[blockIndex].m_Metadata)
    THEN [bv EXCEPT !.m_HasEmptyBlock = FALSE]
    ELSE bv

\* The search of one round of step 3 from blockIndex on; best is
\* [block, request, cost], block 0 standing for pBestRequestBlock == VMA_NULL.
RECURSIVE BestRequestBlock(_, _, _, _, _, _)
BestRequestBlock(bv, currentFrameIndex, frameInUseCount, createInfo, blockIndex, best) ==
    IF blockIndex > Len(bv.m_Blocks) THEN best
    ELSE LET Curr(cr) ==
                 IF cr.ret /\ (best.block = 0 \/ CalcCost(cr.request) < best.cost)
                 THEN IF CalcCost(cr.request) = 0
                      THEN [block |-> blockIndex, request |-> cr.request, cost |-> 0]
                      ELSE BestRequestBlock(bv, currentFrameIndex, frameInUseCount,
                               createInfo, blockIndex + 1,
                               [block |-> blockIndex, request |-> cr.request,
                                cost |-> CalcCost(cr.request)])
                 ELSE BestRequestBlock(bv, currentFrameIndex, frameInUseCount,
                          createInfo, blockIndex + 1, best)
         IN  Curr(CreateAllocationRequest(bv.m_Blocks[blockIndex].m_Metadata,
                      bv.allocs, currentFrameIndex, frameInUseCount,
                      m_BufferImageGranularity, createInfo.size, createInfo.alignment,
                      createInfo.type, TRUE))

\* Step 3 of Allocate from round tryIndex on.  Returns [res, bv].
RECURSIVE AllocateMakeOtherLost(_, _, _, _, _, _, _)
AllocateMakeOtherLost(bv, currentFrameIndex, frameInUseCount, createInfo, hAllocation, vkMapMemory, tryIndex) ==
    IF tryIndex >= VMA_ALLOCATION_TRY_COUNT
    THEN [res |-> "VK_ERROR_TOO_MANY_OBJECTS", bv |-> bv]
    ELSE LET Evicted(b, ml, after) ==
                 IF ml.ret
                 THEN [res |-> "VK_SUCCESS",
                       bv |-> AllocateFromBlock(NoLongerEmpty(after, b), b, ml.request,
                                  createInfo, currentFrameIndex, hAllocation)]
                 ELSE AllocateMakeOtherLost(after, currentFrameIndex, frameInUseCount,
                          createInfo, hAllocation, vkMapMemory, tryIndex + 1)
             Lose(b, m, ml) ==
                 Evicted(b, ml, [bv EXCEPT !.m_Blocks[b] =
                                               [m.block EXCEPT !.m_Metadata = ml.meta],
                                           !.allocs = ml.allocs])
             Mapped(best, m) ==
                 IF m.res # "VK_SUCCESS" THEN [res |-> m.res, bv |-> bv]
                 ELSE Lose(best.block, m,
                          MakeRequestedAllocationsLost(
                              bv.m_Blocks[best.block].m_Metadata, bv.allocs,
                              currentFrameIndex, frameInUseCount, best.request))
             Round(best) ==
                 IF best.block = 0
                 THEN [res |-> "VK_ERROR_OUT_OF_DEVICE_MEMORY", bv |-> bv]
                 ELSE Mapped(best, MapIfMapped(bv.m_Blocks[best.block],
                                       createInfo.mapped, vkMapMemory))
         IN  Round(BestRequestBlock(bv, currentFrameIndex, frameInUseCount, createInfo,
                       1, [block |-> 0, request |-> NoRequest, cost |-> VK_WHOLE_SIZE]))

\* Step 3 of Allocate without the test of
\* VMA_ALLOCATION_CREATE_CAN_MAKE_OTHER_LOST_BIT.
AllocateStep3_AnyRequestEvicts(bv, currentFrameIndex, frameInUseCount, createInfo, hAllocation, vkMapMemory) ==
    AllocateMakeOtherLost(bv, currentFrameIndex, frameInUseCount, createInfo,
        hAllocation, vkMapMemory, 0)

AllocateStep3(bv, currentFrameIndex, frameInUseCount, createInfo, hAllocation, vkMapMemory) ==
    IF createInfo.canMakeOtherLost
    THEN AllocateMakeOtherLost(bv, currentFrameIndex, frameInUseCount, createInfo,
             hAllocation, vkMapMemory, 0)
    ELSE [res |-> "VK_ERROR_OUT_OF_DEVICE_MEMORY", bv |-> bv]

\* Step 2 of Allocate once CreateBlock has run; in a custom pool the new block
\* has m_PreferredBlockSize.  Returns [res, bv].
AllocateStep2(bv, currentFrameIndex, frameInUseCount, createInfo, hAllocation, vkMapMemory, created) ==
    LET New(m) ==
            IF m.res # "VK_SUCCESS"
            THEN [res |-> m.res, bv |-> [bv EXCEPT !.m_Blocks = created.blocks]]
            ELSE [res |-> "VK_SUCCESS",
                  bv |-> AllocateFromBlock(
                             [bv EXCEPT !.m_Blocks =
                                 [created.blocks EXCEPT ![created.newBlockIndex] = m.block]],
                             created.newBlockIndex,
                             CreateFirstAllocationRequest(m.block.m_Metadata),
                             createInfo, currentFrameIndex, hAllocation)]
    IN  IF created.res = "VK_SUCCESS"
        THEN New(MapIfMapped(created.blocks[created.newBlockIndex], createInfo.mapped,
                     vkMapMemory))
        ELSE AllocateStep3(bv, currentFrameIndex, frameInUseCount, createInfo,
                 hAllocation, vkMapMemory)

\* VmaBlockVector::Allocate.  Returns [res, bv].
VmaBlockVector_Allocate(bv, currentFrameIndex, frameInUseCount, createInfo, hAllocation, vkAllocateMemory, vkMapMemory) ==
    LET Request(i) ==
            CreateAllocationRequest(bv.m_Blocks[i].m_Metadata, bv.allocs,
                currentFrameIndex, frameInUseCount, m_BufferImageGranularity,
                createInfo.size, createInfo.alignment, createInfo.type, FALSE)
        Existing(i, cr, m) ==
            IF m.res # "VK_SUCCESS" THEN [res |-> m.res, bv |-> bv]
            ELSE [res |-> "VK_SUCCESS",
                  bv |-> AllocateFromBlock(
                             NoLongerEmpty([bv EXCEPT !.m_Blocks[i] = m.block], i), i,
                             cr.request, createInfo, currentFrameIndex, hAllocation)]
        Step1(fits) ==
            IF fits # {}
            THEN Existing(FirstOf(fits), Request(FirstOf(fits)),
                     MapIfMapped(bv.m_Blocks[FirstOf(fits)], createInfo.mapped,
                         vkMapMemory))
            ELSE IF ~createInfo.neverAllocate /\ Len(bv.m_Blocks) < m_MaxBlockCount
            THEN AllocateStep2(bv, currentFrameIndex, frameInUseCount, createInfo,
                     hAllocation, vkMapMemory,
                     CreateBlock(bv.m_Blocks, m_PreferredBlockSize, vkAllocateMemory))
            ELSE AllocateStep3(bv, currentFrameIndex, frameInUseCount, createInfo,
                     hAllocation, vkMapMemory)
    IN  Step1({i \in 1..Len(bv.m_Blocks) : Request(i).ret})

\* Free that destroys empty blocks whatever m_MinBlockCount is.
VmaBlockVector_Free_IgnoresMinimum(bv, hAllocation) ==
    LET Sorted(bv2) == [bv2 EXCEPT !.m_Blocks = IncrementallySortBlocks(@)]
        Freed(b, id, bv1) ==
            IF IsEmpty(bv1.m_Blocks[b].m_Metadata)
            THEN IF bv1.m_HasEmptyBlock
                 THEN [bv1 EXCEPT !.m_Blocks = VmaBlockVector_Remove(@, id)]
                 ELSE [bv1 EXCEPT !.m_HasEmptyBlock = TRUE]
            ELSE IF /\ bv1.m_HasEmptyBlock
                    /\ IsEmpty(bv1.m_Blocks[Len(bv1.m_Blocks)].m_Metadata)
            THEN [bv1 EXCEPT !.m_Blocks = SubSeq(@, 1, Len(@) - 1),
                             !.m_HasEmptyBlock = FALSE]
            ELSE bv1
        OfBlock(b) ==
            Sorted(Freed(b, bv.m_Blocks[b].id,
                [bv EXCEPT !.m_Blocks[b] =
                    [(IF IsPersistentMap(bv.allocs[hAllocation])
                      THEN Unmap(@, 1) ELSE @)
                     EXCEPT !.m_Metadata = Free(@, hAllocation)]]))
    IN  OfBlock(BlockIndex(bv.m_Blocks, bv.allocs[hAllocation].m_Block))

\* VmaBlockVector::Free; the VmaAllocation_T itself is deleted by the caller.
\* An allocation whose block is not in m_Blocks is not passed in.
VmaBlockVector_Free(bv, hAllocation) ==
    LET Sorted(bv2) == [bv2 EXCEPT !.m_Blocks = IncrementallySortBlocks(@)]
        Freed(b, id, bv1) ==
            IF IsEmpty(bv1.m_Blocks[b].m_Metadata)
            THEN IF bv1.m_HasEmptyBlock /\ Len(bv1.m_Blocks) > m_MinBlockCount
                 THEN [bv1 EXCEPT !.m_Blocks = VmaBlockVector_Remove(@, id)]
                 ELSE [bv1 EXCEPT !.m_HasEmptyBlock = TRUE]
            ELSE IF /\ bv1.m_HasEmptyBlock
                    /\ IsEmpty(bv1.m_Blocks[Len(bv1.m_Blocks)].m_Metadata)
                    /\ Len(bv1.m_Blocks) > m_MinBlockCount
            THEN [bv1 EXCEPT !.m_Blocks = SubSeq(@, 1, Len(@) - 1),
                             !.m_HasEmptyBlock = FALSE]
            ELSE bv1
        OfBlock(b) ==
            Sorted(Freed(b, bv.m_Blocks[b].id,
                [bv EXCEPT !.m_Blocks[b] =
                    [(IF IsPersistentMap(bv.allocs[hAllocation])
                      THEN Unmap(@, 1) ELSE @)
                     EXCEPT !.m_Metadata = Free(@, hAllocation)]]))
    IN  OfBlock(BlockIndex(bv.m_Blocks, bv.allocs[hAllocation].m_Block))

\* The loop of VmaBlockVector::MakePoolAllocationsLost from blockIndex on.
\* Returns [bv, lostAllocationCount].
RECURSIVE MakePoolAllocationsLostFrom(_, _, _, _, _)
MakePoolAllocationsLostFrom(bv, currentFrameIndex, frameInUseCount, blockIndex, lostAllocationCount) ==
    IF blockIndex > Len(bv.m_Blocks)
    THEN [bv |-> bv, lostAllocationCount |-> lostAllocationCount]
    ELSE LET Swept(s) ==
                 MakePoolAllocationsLostFrom(
                     [bv EXCEPT !.m_Blocks[blockIndex].m_Metadata = s.meta,
                                !.allocs = s.allocs],
                     currentFrameIndex, frameInUseCount, blockIndex + 1,
                     lostAllocationCount + s.lostAllocationCount)
         IN  Swept(MakeAllocationsLost(bv.m_Blocks[blockIndex].m_Metadata, bv.allocs,
                       currentFrameIndex, frameInUseCount))

VmaBlockVector_MakePoolAllocationsLost(bv, currentFrameIndex, frameInUseCount) ==
    MakePoolAllocationsLostFrom(bv, currentFrameIndex, frameInUseCount, 1, 0)

(***************************************************************************)
(* VmaDefragmentator.  d is the defragmentator together with the vector it *)
(* works on: [bv, infos, m_BytesMoved, m_AllocationsMoved,                 *)
(* m_CurrentFrameIndex, frameInUseCount].  infos is                        *)
(* VmaDefragmentator::m_Blocks, a BlockInfo being [m_pBlock, m_Allocations,*)
(* m_HasNonMovableAllocations, mappedForDefragmentation] with m_pBlock the *)
(* position of the block in the vector, which stands still while the       *)
(* vector's mutex is held.  vkMapMemory gives the device's result for each *)
(* block.                                                                  *)
(***************************************************************************)
SIZE_MAX == 2147483647
UINT32_MAX == 2147483647

\* Whether the bytes [offset, offset + size) of a block all lie in one free
\* suballocation.
IsFreeRange(meta, offset, size) ==
    \E i \in 1..Len(meta.m_Suballocations) :
        /\ meta.m_Suballocations[i].type = VMA_SUBALLOCATION_TYPE_FREE
        /\ meta.m_Suballocations[i].offset <= offset
        /\ offset + size <= meta.m_Suballocations[i].offset + meta.m_Suballocations[i].size

\* Every destination that CreateAllocationRequest finds is taken.
MoveMakesSense_Always(dstBlockIndex, dstOffset, srcBlockIndex, srcOffset) == TRUE

MoveMakesSense(dstBlockIndex, dstOffset, srcBlockIndex, srcOffset) ==
    IF dstBlockIndex < srcBlockIndex THEN TRUE
    ELSE IF dstBlockIndex > srcBlockIndex THEN FALSE
    ELSE dstOffset < srcOffset

\* Returns [res, d].
EnsureMapping(d, blockInfoIndex, vkMapMemory) ==
    LET info == d.infos[blockInfoIndex]
        Mapped(m) ==
            IF m.res = "VK_SUCCESS"
            THEN [res |-> "VK_SUCCESS",
                  d |-> [d EXCEPT !.bv.m_Blocks[info.m_pBlock] = m.block,
                                  !.infos[blockInfoIndex].mappedForDefragmentation = TRUE]]
            ELSE [res |-> m.res, d |-> d]
    IN  IF info.mappedForDefragmentation THEN [res |-> "VK_SUCCESS", d |-> d]
        ELSE IF d.bv.m_Blocks[info.m_pBlock].m_MapCount # 0
        THEN [res |-> "VK_SUCCESS", d |-> d]
        ELSE Mapped(Map(d.bv.m_Blocks[info.m_pBlock], 1, vkMapMemory[info.m_pBlock]))

\* VmaDefragmentator::BlockInfo::Unmap.
BlockInfo_Unmap(d, blockInfoIndex) ==
    IF d.infos[blockInfoIndex].mappedForDefragmentation
    THEN [d EXCEPT !.bv.m_Blocks[d.infos[blockInfoIndex].m_pBlock] = Unmap(@, 1)]
    ELSE d

ChangeBlockAllocation_KeepsOffset(bv, hAllocation, blockIndex, offset, vkMapMemory) ==
    [bv EXCEPT !.allocs[hAllocation].m_Block = bv.m_Blocks[blockIndex].id]

\* VmaAllocation_T::ChangeBlockAllocation on the vector's state; blockIndex is
\* the position of the new block.
ChangeBlockAllocation(bv, hAllocation, blockIndex, offset, vkMapMemory) ==
    LET alloc == bv.allocs[hAllocation]
        Moved(bv1) ==
            [bv1 EXCEPT !.allocs[hAllocation].m_Block = bv.m_Blocks[blockIndex].id,
                        !.allocs[hAllocation].m_Offset = offset]
        Remap(old, mapRefCount) ==
            [bv EXCEPT !.m_Blocks[old] = Unmap(@, mapRefCount),
                       !.m_Blocks[blockIndex] =
                           Map(@, mapRefCount, vkMapMemory[blockIndex]).block]
    IN  IF bv.m_Blocks[blockIndex].id # alloc.m_Block
        THEN Moved(Remap(BlockIndex(bv.m_Blocks, alloc.m_Block),
                 (alloc.m_MapCount % MAP_COUNT_FLAG_PERSISTENT_MAP)
                    + (IF IsPersistentMap(alloc) THEN 1 ELSE 0)))
        ELSE Moved(bv)

\* The for(;;) loop of DefragmentRound from (srcBlockIndex, srcAllocIndex) on;
\* srcBlockIndex counts from 1, srcAllocIndex from 0 as in the code.
\* d.moves is the history of the moves made: for each memcpy, in order, the
\* allocation, its size, the block indices and offsets handed to
\* MoveMakesSense, the two blocks, and whether the destination range lay in a
\* free suballocation when the bytes were copied.
\* d.attempts is the history of the allocations the loop has come to in
\* step 1, round by round: for each, in order, the allocation and the index
\* of its block.
\* Returns [res, d].
RECURSIVE DefragmentRoundFrom(_, _, _, _, _, _)
DefragmentRoundFrom(defragmentator, maxBytesToMove, maxAllocationsToMove, vkMapMemory, srcBlockIndex, srcAllocIndex) ==
    LET allocations == defragmentator.infos[srcBlockIndex].m_Allocations
        srcBlock == defragmentator.infos[srcBlockIndex].m_pBlock
        d == IF srcAllocIndex >= Len(allocations) THEN defragmentator
             ELSE [defragmentator EXCEPT !.attempts[Len(defragmentator.attempts)] =
                      Append(@, [hAllocation |-> allocations[srcAllocIndex + 1],
                                 srcBlockIndex |-> srcBlockIndex])]
        Continue(d1) ==
            IF srcAllocIndex > 0
            THEN DefragmentRoundFrom(d1, maxBytesToMove, maxAllocationsToMove,
                     vkMapMemory, srcBlockIndex, srcAllocIndex - 1)
            ELSE IF srcBlockIndex > 1
            THEN DefragmentRoundFrom(d1, maxBytesToMove, maxAllocationsToMove,
                     vkMapMemory, srcBlockIndex - 1, SIZE_MAX)
            ELSE [res |-> "VK_SUCCESS", d |-> d1]
        Move(h, a, dst, dstBlock, request, d2) ==
            Continue([d2 EXCEPT
                !.bv = ChangeBlockAllocation(
                           [[@ EXCEPT !.m_Blocks[dstBlock].m_Metadata =
                                          Alloc(@, request, a.m_SuballocationType,
                                                a.m_Size, h)]
                               EXCEPT !.m_Blocks[srcBlock].m_Metadata =
                                          FreeAtOffset(@, a.m_Offset)],
                           h, dstBlock, request.offset, vkMapMemory),
                !.m_AllocationsMoved = @ + 1,
                !.m_BytesMoved = @ + a.m_Size,
                !.infos[srcBlockIndex].m_Allocations = VmaVectorRemove(@, srcAllocIndex),
                !.moves = Append(@, [hAllocation |-> h, size |-> a.m_Size,
                                     srcBlockIndex |-> srcBlockIndex,
                                     srcBlock |-> d2.bv.m_Blocks[srcBlock].id,
                                     srcOffset |-> a.m_Offset,
                                     dstBlockIndex |-> dst,
                                     dstBlock |-> d2.bv.m_Blocks[dstBlock].id,
                                     dstOffset |-> request.offset,
                                     dstWasFree |->
                                         IsFreeRange(d2.bv.m_Blocks[dstBlock].m_Metadata,
                                             request.offset, a.m_Size)])])
        Src(h, a, dst, request, e) ==
            IF e.res # "VK_SUCCESS" THEN e
            ELSE Move(h, a, dst, d.infos[dst].m_pBlock, request, e.d)
        Dst(h, a, dst, request, e) ==
            IF e.res # "VK_SUCCESS" THEN e
            ELSE Src(h, a, dst, request, EnsureMapping(e.d, srcBlockIndex, vkMapMemory))
        Found(h, a, dst, request) ==
            IF \/ d.m_AllocationsMoved + 1 > maxAllocationsToMove
               \/ d.m_BytesMoved + a.m_Size > maxBytesToMove
            THEN [res |-> "VK_INCOMPLETE", d |-> d]
            ELSE Dst(h, a, dst, request, EnsureMapping(d, dst, vkMapMemory))
        Request(a, dst) ==
            CreateAllocationRequest(d.bv.m_Blocks[d.infos[dst].m_pBlock].m_Metadata,
                d.bv.allocs, d.m_CurrentFrameIndex, d.frameInUseCount,
                m_BufferImageGranularity, a.m_Size, a.m_Alignment,
                a.m_SuballocationType, FALSE)
        Try(h, a, fits) ==
            IF fits = {} THEN Continue(d)
            ELSE Found(h, a, FirstOf(fits), Request(a, FirstOf(fits)).request)
        Body(h, a) ==
            Try(h, a, {dst \in 1..srcBlockIndex :
                          /\ Request(a, dst).ret
                          /\ MoveMakesSense(dst, Request(a, dst).request.offset,
                                 srcBlockIndex, a.m_Offset)})
    IN  IF srcAllocIndex >= Len(allocations)
        THEN IF Len(allocations) = 0
             THEN IF srcBlockIndex = 1 THEN [res |-> "VK_SUCCESS", d |-> d]
                  ELSE DefragmentRoundFrom(d, maxBytesToMove, maxAllocationsToMove,
                           vkMapMemory, srcBlockIndex - 1, SIZE_MAX)
             ELSE DefragmentRoundFrom(d, maxBytesToMove, maxAllocationsToMove,
                      vkMapMemory, srcBlockIndex, Len(allocations) - 1)
        ELSE Body(allocations[srcAllocIndex + 1],
                  d.bv.allocs[allocations[srcAllocIndex + 1]])

DefragmentRound(d, maxBytesToMove, maxAllocationsToMove, vkMapMemory) ==
    IF Len(d.infos) = 0 THEN [res |-> "VK_SUCCESS", d |-> d]
    ELSE DefragmentRoundFrom([d EXCEPT !.attempts = Append(@, << >>)], maxBytesToMove,
             maxAllocationsToMove, vkMapMemory, Len(d.infos), SIZE_MAX)


\* Unmap the blocks that were mapped for defragmentation, from blockInfoIndex on.
RECURSIVE UnmapForDefragmentation(_, _)
UnmapForDefragmentation(d, blockInfoIndex) ==
    IF blockInfoIndex > Len(d.infos) THEN d
    ELSE UnmapForDefragmentation(BlockInfo_Unmap(d, blockInfoIndex), blockInfoIndex + 1)

\* VmaDefragmentator::Defragment once m_Blocks has been built and sorted: the
\* two rounds and the unmapping.  Returns [res, d].
VmaDefragmentator_Defragment(d, maxBytesToMove, maxAllocationsToMove, vkMapMemory) ==
    LET Unmapped(r) == [res |-> r.res, d |-> UnmapForDefragmentation(r.d, 1)]
        Second(r) ==
            IF r.res = "VK_SUCCESS"
            THEN DefragmentRound(r.d, maxBytesToMove, maxAllocationsToMove, vkMapMemory)
            ELSE r
    IN  Unmapped(Second(DefragmentRound(d, maxBytesToMove, maxAllocationsToMove,
                            vkMapMemory)))

\* The last loop of VmaBlockVector::Defragment, from blockIndex down.
RECURSIVE FreeEmptyBlocks(_, _)
FreeEmptyBlocks(bv, blockIndex) ==
    IF blockIndex = 0 THEN bv
    ELSE IF IsEmpty(bv.m_Blocks[blockIndex].m_Metadata)
    THEN IF Len(bv.m_Blocks) > m_MinBlockCount
         THEN FreeEmptyBlocks([bv EXCEPT !.m_Blocks = VmaVectorRemove(@, blockIndex - 1)],
                  blockIndex - 1)
         ELSE FreeEmptyBlocks([bv EXCEPT !.m_HasEmptyBlock = TRUE], blockIndex - 1)
    ELSE FreeEmptyBlocks(bv, blockIndex - 1)

\* VmaBlockVector::Defragment with a defragmentator whose m_Blocks is infos.
\* Returns [res, bv, bytesMoved, allocationsMoved, moves].
VmaBlockVector_Defragment(bv, infos, currentFrameIndex, frameInUseCount, maxBytesToMove, maxAllocationsToMove, vkMapMemory) ==
    LET Done(r) ==
            [res |-> r.res,
             bv |-> FreeEmptyBlocks([r.d.bv EXCEPT !.m_HasEmptyBlock = FALSE],
                        Len(r.d.bv.m_Blocks)),
             bytesMoved |-> r.d.m_BytesMoved,
             allocationsMoved |-> r.d.m_AllocationsMoved,
             moves |-> r.d.moves,
             attempts |-> r.d.attempts]
    IN  Done(VmaDefragmentator_Defragment(
                 [bv |-> bv, infos |-> infos, m_BytesMoved |-> 0,
                  m_AllocationsMoved |-> 0, moves |-> << >>, attempts |-> << >>,
                  m_CurrentFrameIndex |-> currentFrameIndex,
                  frameInUseCount |-> frameInUseCount],
                 maxBytesToMove, maxAllocationsToMove, vkMapMemory))

\* The orders of the elements of S.
Perms(S) ==
    {f \in [1..Cardinality(S) -> S] :
        \A i, j \in 1..Cardinality(S) : i # j => f[i] # f[j]}

AllocationInfoSizeGreater(allocs, lhs, rhs) == allocs[lhs].m_Size > allocs[rhs].m_Size

GetAllocationCount(meta) == Len(meta.m_Suballocations) - meta.m_FreeCount

BlockInfoCompareMoveDestination(bv, lhs, rhs) ==
    IF lhs.m_HasNonMovableAllocations /\ ~rhs.m_HasNonMovableAllocations THEN TRUE
    ELSE IF ~lhs.m_HasNonMovableAllocations /\ rhs.m_HasNonMovableAllocations THEN FALSE
    ELSE GetSumFreeSize(bv.m_Blocks[lhs.m_pBlock].m_Metadata)
            < GetSumFreeSize(bv.m_Blocks[rhs.m_pBlock].m_Metadata)

\* VmaDefragmentator::m_Blocks as the first part of Defragment may leave it for
\* the allocations that AddAllocation was called with: a BlockInfo for each
\* block with the allocations of that block that are not lost, sorted by
\* SortAllocationsBySizeDescecnding, the vector sorted by
\* BlockInfoCompareMoveDestination.  VMA_SORT is std::sort, which puts
\* equivalent elements in any order.
SortedBlockInfos(bv, added) ==
    LET OfBlock(b) ==
            {h \in added : /\ bv.allocs[h].m_LastUseFrameIndex # VMA_FRAME_INDEX_LOST
                           /\ bv.allocs[h].m_Block = bv.m_Blocks[b].id}
        SortedAllocations(b) ==
            {s \in Perms(OfBlock(b)) :
                \A i, j \in 1..Len(s) :
                    i < j => ~AllocationInfoSizeGreater(bv.allocs, s[j], s[i])}
        BlockInfo(b, allocations) ==
            [m_pBlock |-> b, m_Allocations |-> allocations,
             m_HasNonMovableAllocations |->
                 GetAllocationCount(bv.m_Blocks[b].m_Metadata) # Len(allocations),
             mappedForDefragmentation |-> FALSE]
        Unsorted == {f \in [1..Len(bv.m_Blocks) -> UNION {SortedAllocations(b) : b \in 1..Len(bv.m_Blocks)}] :
                        \A b \in 1..Len(bv.m_Blocks) : f[b] \in SortedAllocations(b)}
    IN  {infos \in {[k \in 1..Len(bv.m_Blocks) |-> BlockInfo(order[k], f[order[k]])] :
                       order \in Perms(1..Len(bv.m_Blocks)), f \in Unsorted} :
            \A i, j \in 1..Len(infos) :
                i < j => ~BlockInfoCompareMoveDestination(bv, infos[j], infos[i])}

(***************************************************************************)
(* SpecMeta: the calls on the metadata of one block, made the way          *)
(* VmaBlockVector and VmaDefragmentator make them.                         *)
(* A handle is used once: after its suballocation is freed the             *)
(* VmaAllocation_T is deleted (VmaAllocator_T::FreeMemory) or lives on in  *)
(* another block (ChangeBlockAllocation), and is of no concern here.       *)
(***************************************************************************)
MetaBlockSize == 64
MetaGranularity == 32

NoThreads == << >>
NoHist == << >>

\* What a caller may ask of one block: size, alignment, suballocation type,
\* VMA_ALLOCATION_CREATE_CAN_BECOME_LOST_BIT.
MetaRequests ==
    { [size |-> 8,  alignment |-> 1,  type |-> VMA_SUBALLOCATION_TYPE_BUFFER,
       canBecomeLost |-> FALSE],
      [size |-> 8,  alignment |-> 16, type |-> VMA_SUBALLOCATION_TYPE_IMAGE_OPTIMAL,
       canBecomeLost |-> TRUE],
      [size |-> 16, alignment |-> 1,  type |-> VMA_SUBALLOCATION_TYPE_BUFFER,
       canBecomeLost |-> TRUE],
      [size |-> 24, alignment |-> 16, type |-> VMA_SUBALLOCATION_TYPE_BUFFER,
       canBecomeLost |-> FALSE] }

Meta == m_Blocks[1].m_Metadata

\* A VmaAllocation_T after vma_delete.
DeletedAllocation == [NoAllocation EXCEPT !.m_Type = "DELETED"]

\* The handles that stand in the block's suballocation list.
InBlock(meta) ==
    {meta.m_Suballocations[i].hAllocation : i \in 1..Len(meta.m_Suballocations)}
        \ {VK_NULL_HANDLE}

\* The allocation objects not created yet.
UnusedHandles == {h \in DOMAIN hAllocations : hAllocations[h].m_Type = "NONE"}

NewHandle == CHOOSE h \in UnusedHandles : \A g \in UnusedHandles : h <= g

MetaInit ==
    /\ m_Blocks = << [id |-> 1, m_Metadata |-> VmaBlockMetadata_Init(MetaBlockSize),
                      m_MapCount |-> 0, vkMapState |-> "unmapped"] >>
    /\ hAllocations = [h \in 1..MetaMaxAllocations |-> NoAllocation]
    /\ m_CurrentFrameIndex = 0
    /\ m_FrameInUseCount = 0
    /\ m_MinBlockCount = 0
    /\ m_HeapSizeLimit = VK_WHOLE_SIZE
    /\ m_Pools = << >>
    /\ m_HasEmptyBlock = FALSE
    /\ ret = [op |-> "Init", res |-> "VK_SUCCESS"]
    /\ threads = NoThreads
    /\ hist = NoHist

\* CreateAllocationRequest without eviction, then Alloc (Allocate step 1,
\* DefragmentRound's destination).
MetaAlloc(r) ==
    \E cr \in {CreateAllocationRequest(Meta, hAllocations, m_CurrentFrameIndex,
                   m_FrameInUseCount, MetaGranularity, r.size, r.alignment, r.type,
                   FALSE)} :
        /\ UnusedHandles # {}
        /\ cr.ret
        /\ m_Blocks' = [m_Blocks EXCEPT ![1].m_Metadata =
                           Alloc(@, cr.request, r.type, r.size, NewHandle)]
        /\ hAllocations' = [hAllocations EXCEPT ![NewHandle] =
                               InitBlockAllocation(m_CurrentFrameIndex, 1,
                                   cr.request.offset, r.alignment, r.size, r.type,
                                   FALSE, r.canBecomeLost)]
        /\ ret' = [op |-> "Alloc", res |-> "VK_SUCCESS"]
        /\ UNCHANGED <<m_CurrentFrameIndex, m_FrameInUseCount, m_MinBlockCount, m_HeapSizeLimit, m_Pools, m_HasEmptyBlock,
                       threads, hist>>

\* CreateAllocationRequest with eviction, MakeRequestedAllocationsLost, then
\* Alloc when the eviction succeeded (Allocate step 3).
MetaAllocMakeLost(r) ==
    \E cr \in {CreateAllocationRequest(Meta, hAllocations, m_CurrentFrameIndex,
                   m_FrameInUseCount, MetaGranularity, r.size, r.alignment, r.type,
                   TRUE)} :
    \E ml \in {MakeRequestedAllocationsLost(Meta, hAllocations, m_CurrentFrameIndex,
                   m_FrameInUseCount, cr.request)} :
        /\ UnusedHandles # {}
        /\ cr.ret
        /\ cr.request.itemsToMakeLostCount > 0
        /\ IF ml.ret
           THEN /\ m_Blocks' = [m_Blocks EXCEPT ![1].m_Metadata =
                                   Alloc(ml.meta, ml.request, r.type, r.size, NewHandle)]
                /\ hAllocations' = [ml.allocs EXCEPT ![NewHandle] =
                                       InitBlockAllocation(m_CurrentFrameIndex, 1,
                                           ml.request.offset, r.alignment, r.size,
                                           r.type, FALSE, r.canBecomeLost)]
                /\ ret' = [op |-> "MakeRequestedAllocationsLost", res |-> "VK_SUCCESS"]
           ELSE /\ m_Blocks' = [m_Blocks EXCEPT ![1].m_Metadata = ml.meta]
                /\ hAllocations' = ml.allocs
                /\ ret' = [op |-> "MakeRequestedAllocationsLost", res |-> "false"]
        /\ UNCHANGED <<m_CurrentFrameIndex, m_FrameInUseCount, m_MinBlockCount, m_HeapSizeLimit, m_Pools, m_HasEmptyBlock,
                       threads, hist>>

MetaFree(h) ==
    /\ h \in InBlock(Meta)
    /\ m_Blocks' = [m_Blocks EXCEPT ![1].m_Metadata = Free(@, h)]
    /\ hAllocations' = [hAllocations EXCEPT ![h] = DeletedAllocation]
    /\ ret' = [op |-> "Free", res |-> "VK_SUCCESS"]
    /\ UNCHANGED <<m_CurrentFrameIndex, m_FrameInUseCount, m_MinBlockCount, m_HeapSizeLimit, m_Pools,
                   m_HasEmptyBlock, threads, hist>>

\* DefragmentRound frees the source of a move by its offset.
MetaFreeAtOffset(h) ==
    /\ h \in InBlock(Meta)
    /\ m_Blocks' = [m_Blocks EXCEPT ![1].m_Metadata =
                       FreeAtOffset(@, hAllocations[h].m_Offset)]
    /\ hAllocations' = [hAllocations EXCEPT ![h] = DeletedAllocation]
    /\ ret' = [op |-> "FreeAtOffset", res |-> "VK_SUCCESS"]
    /\ UNCHANGED <<m_CurrentFrameIndex, m_FrameInUseCount, m_MinBlockCount, m_HeapSizeLimit, m_Pools,
                   m_HasEmptyBlock, threads, hist>>

MetaMakeAllocationsLost ==
    \E swept \in {MakeAllocationsLost(Meta, hAllocations, m_CurrentFrameIndex,
                      m_FrameInUseCount)} :
        /\ m_Blocks' = [m_Blocks EXCEPT ![1].m_Metadata = swept.meta]
        /\ hAllocations' = swept.allocs
        /\ ret' = [op |-> "MakeAllocationsLost", res |-> swept.lostAllocationCount]
        /\ UNCHANGED <<m_CurrentFrameIndex, m_FrameInUseCount, m_MinBlockCount, m_HeapSizeLimit, m_Pools, m_HasEmptyBlock,
                       threads, hist>>

MetaSetCurrentFrameIndex ==
    /\ m_CurrentFrameIndex < MaxFrame
    /\ m_CurrentFrameIndex' = m_CurrentFrameIndex + 1
    /\ ret' = [op |-> "SetCurrentFrameIndex", res |-> "VK_SUCCESS"]
    /\ UNCHANGED <<m_Blocks, hAllocations, m_FrameInUseCount, m_MinBlockCount, m_HeapSizeLimit, m_Pools, m_HasEmptyBlock,
                   threads, hist>>

MetaNext ==
    \/ \E r \in MetaRequests : MetaAlloc(r)
    \/ \E r \in MetaRequests : MetaAllocMakeLost(r)
    \/ \E h \in DOMAIN hAllocations : MetaFree(h)
    \/ \E h \in DOMAIN hAllocations : MetaFreeAtOffset(h)
    \/ MetaMakeAllocationsLost
    \/ MetaSetCurrentFrameIndex

SpecMeta == MetaInit /\ [][MetaNext]_vars

(***************************************************************************)
(* What VmaBlockMetadata::Validate and ValidateFreeSuballocationList       *)
(* compute, as predicates on one metadata.                                 *)
(***************************************************************************)
RECURSIVE SumSize(_, _)
SumSize(subs, n) == IF n = 0 THEN 0 ELSE subs[n].size + SumSize(subs, n - 1)

FreeItems(meta) ==
    {i \in 1..Len(meta.m_Suballocations) :
        meta.m_Suballocations[i].type = VMA_SUBALLOCATION_TYPE_FREE}

RECURSIVE SumFree(_, _)
SumFree(subs, n) ==
    IF n = 0 THEN 0
    ELSE (IF subs[n].type = VMA_SUBALLOCATION_TYPE_FREE THEN subs[n].size ELSE 0)
         + SumFree(subs, n - 1)

ValidateSuballocations(meta) ==
    LET subs == meta.m_Suballocations
    IN  /\ Len(subs) >= 1
        /\ subs[1].offset = 0
        /\ \A i \in 1..(Len(subs) - 1) :
              subs[i + 1].offset = subs[i].offset + subs[i].size
        /\ SumSize(subs, Len(subs)) = meta.m_Size
        /\ \A i \in 1..(Len(subs) - 1) :
              ~(subs[i].type = VMA_SUBALLOCATION_TYPE_FREE
                /\ subs[i + 1].type = VMA_SUBALLOCATION_TYPE_FREE)

ValidateFreeSuballocationList(meta) ==
    LET subs == meta.m_Suballocations
        vec == meta.m_FreeSuballocationsBySize
    IN  /\ \A k \in 1..Len(vec) :
              /\ ItemIndex(meta, vec[k]) # 0
              /\ subs[ItemIndex(meta, vec[k])].type = VMA_SUBALLOCATION_TYPE_FREE
              /\ subs[ItemIndex(meta, vec[k])].hAllocation = VK_NULL_HANDLE
              /\ subs[ItemIndex(meta, vec[k])].size
                    >= VMA_MIN_FREE_SUBALLOCATION_SIZE_TO_REGISTER
        /\ \A k \in 1..(Len(vec) - 1) :
              ItemSize(meta, vec[k]) <= ItemSize(meta, vec[k + 1])
        /\ \A k, l \in 1..Len(vec) : k # l => vec[k] # vec[l]
        /\ \A i \in FreeItems(meta) :
              subs[i].size >= VMA_MIN_FREE_SUBALLOCATION_SIZE_TO_REGISTER
                 => \E k \in 1..Len(vec) : vec[k] = subs[i].offset

ValidateCounters(meta) ==
    /\ meta.m_SumFreeSize = SumFree(meta.m_Suballocations, Len(meta.m_Suballocations))
    /\ meta.m_FreeCount = Cardinality(FreeItems(meta))

(***************************************************************************)
(* Spec: the calls of VmaAllocator_T on one custom pool and on dedicated   *)
(* memory, each call running from start to end without another thread in   *)
(* between.  The pool has no minimum of blocks, so it starts without any;   *)
(* its memory type is HOST_VISIBLE.                                        *)
(***************************************************************************)
\* VmaAllocationCreateInfo and VkMemoryRequirements of the requests: the flags
\* of VmaAllocationCreateFlagBits by name, pool telling whether the custom pool
\* is given.  The caller keeps at most one allocation of each group at a
\* time, and the VmaAllocation_T made for a request is named after the group:
\* CreateInfos[h] are the requests that handle h can stand for.
CreateInfos ==
    LET Info(size, alignment, type, flags) ==
            [size |-> size, alignment |-> alignment, type |-> type,
             pool |-> "pool" \in flags,
             dedicatedMemory |-> "DEDICATED_MEMORY" \in flags,
             neverAllocate |-> "NEVER_ALLOCATE" \in flags,
             mapped |-> "MAPPED" \in flags,
             canBecomeLost |-> "CAN_BECOME_LOST" \in flags,
             canMakeOtherLost |-> "CAN_MAKE_OTHER_LOST" \in flags]
    IN  << { Info(16, 1, VMA_SUBALLOCATION_TYPE_BUFFER, {"pool", "MAPPED"}),
             Info(16, 1, VMA_SUBALLOCATION_TYPE_BUFFER,
                  {"pool", "MAPPED", "CAN_BECOME_LOST"}) },
           { Info(16, 16, VMA_SUBALLOCATION_TYPE_BUFFER, {"pool", "CAN_BECOME_LOST"}),
             Info(16, 1, VMA_SUBALLOCATION_TYPE_IMAGE_OPTIMAL,
                  {"pool", "CAN_BECOME_LOST", "CAN_MAKE_OTHER_LOST"}) },
           { Info(16, 1, VMA_SUBALLOCATION_TYPE_IMAGE_OPTIMAL,
                  {"pool", "CAN_MAKE_OTHER_LOST", "NEVER_ALLOCATE"}),
             Info(16, 1, VMA_SUBALLOCATION_TYPE_BUFFER, {"pool", "CAN_MAKE_OTHER_LOST"}),
             Info(16, 1, VMA_SUBALLOCATION_TYPE_BUFFER, {"pool"}),
             Info(16, 1, VMA_SUBALLOCATION_TYPE_BUFFER,
                  {"DEDICATED_MEMORY", "CAN_BECOME_LOST"}),
             Info(16, 1, VMA_SUBALLOCATION_TYPE_BUFFER,
                  {"DEDICATED_MEMORY", "NEVER_ALLOCATE"}),
             Info(16, 1, VMA_SUBALLOCATION_TYPE_BUFFER, {"pool", "DEDICATED_MEMORY"}) } >>

\* What the device may answer.
VkAllocateMemoryResults == {"VK_SUCCESS", "VK_ERROR_OUT_OF_DEVICE_MEMORY"}
VkMapMemoryResults == {"VK_SUCCESS", "VK_ERROR_MEMORY_MAP_FAILED"}

\* VmaDefragmentationInfo: maxBytesToMove and maxAllocationsToMove; the first
\* is what a null pDefragmentationInfo stands for.
DefragmentationInfos ==
    { [maxBytesToMove |-> SIZE_MAX, maxAllocationsToMove |-> UINT32_MAX],
      [maxBytesToMove |-> SIZE_MAX, maxAllocationsToMove |-> 1],
      [maxBytesToMove |-> 16, maxAllocationsToMove |-> UINT32_MAX] }

\* The limits of a Defragment call and what the device answers when a block
\* is mapped during it.
DefragmentCalls ==
    LET Device(failing) ==
            [b \in 1..m_MaxBlockCount |->
                IF b \in failing THEN "VK_ERROR_MEMORY_MAP_FAILED" ELSE "VK_SUCCESS"]
    IN  { [pDefragmentationInfo |-> info, vkMapMemory |-> Device({})] :
              info \in DefragmentationInfos }
        \cup { [pDefragmentationInfo |-> [maxBytesToMove |-> SIZE_MAX,
                                          maxAllocationsToMove |-> UINT32_MAX],
                vkMapMemory |-> Device({m_MaxBlockCount})] }

\* The state a call on the pool's block vector works on.
BlockVector ==
    [m_Blocks |-> m_Blocks, m_HasEmptyBlock |-> m_HasEmptyBlock, allocs |-> hAllocations]

\* The handles of the VmaAllocation_T objects that exist.
LiveHandles == {h \in DOMAIN hAllocations : hAllocations[h].m_Type \in {"BLOCK", "DEDICATED"}}

\* The allocations a call has made lost.
MadeLost(before, after) ==
    {h \in DOMAIN before : /\ before[h].m_LastUseFrameIndex # VMA_FRAME_INDEX_LOST
                           /\ after[h].m_LastUseFrameIndex = VMA_FRAME_INDEX_LOST}

Init ==
    /\ m_Blocks = << >>
    /\ hAllocations = [h \in DOMAIN CreateInfos |-> NoAllocation]
    /\ m_CurrentFrameIndex = 0
    /\ m_FrameInUseCount = 0
    /\ m_MinBlockCount = 0
    /\ m_HeapSizeLimit = VK_WHOLE_SIZE
    /\ m_Pools = << >>
    /\ m_HasEmptyBlock = FALSE
    /\ ret = [op |-> "Init", res |-> "VK_SUCCESS"]
    /\ threads = NoThreads
    /\ hist = [madeLost |-> {}]

\* VmaAllocator_T::AllocateDedicatedMemory.  Returns [res, alloc].
AllocateDedicatedMemory(currentFrameIndex, createInfo, hMemory, vkAllocateMemory, vkMapMemory) ==
    IF vkAllocateMemory # "VK_SUCCESS"
    THEN [res |-> vkAllocateMemory, alloc |-> NoAllocation]
    ELSE IF createInfo.mapped /\ vkMapMemory # "VK_SUCCESS"
    THEN [res |-> vkMapMemory, alloc |-> NoAllocation]
    ELSE [res |-> "VK_SUCCESS",
          alloc |-> InitDedicatedAllocation(currentFrameIndex, hMemory, createInfo.size,
                        createInfo.type, createInfo.mapped)]

\* No test of the flags at the head of AllocateMemory.
MutuallyExclusiveFlags_NotTested(createInfo) ==
    FALSE

\* The tests at the head of VmaAllocator_T::AllocateMemory, each of which
\* returns VK_ERROR_OUT_OF_DEVICE_MEMORY behind a VMA_ASSERT(0).
MutuallyExclusiveFlags(createInfo) ==
    \/ createInfo.dedicatedMemory /\ createInfo.neverAllocate
    \/ createInfo.mapped /\ createInfo.canBecomeLost
    \/ createInfo.pool /\ createInfo.dedicatedMemory

\* VmaAllocator_T::AllocateMemory.  Without a pool only requests for dedicated
\* memory are made, which AllocateMemoryOfType hands to
\* AllocateDedicatedMemory.
AllocateMemory(createInfo, pAllocation, vkAllocateMemory, vkMapMemory) ==
    /\ hAllocations[pAllocation].m_Type = "NONE"
    /\ createInfo.pool \/ createInfo.dedicatedMemory
    /\ UNCHANGED <<m_CurrentFrameIndex, m_FrameInUseCount, m_MinBlockCount, m_HeapSizeLimit, m_Pools, threads>>
    /\ IF MutuallyExclusiveFlags(createInfo)
       THEN /\ ret' = [op |-> "AllocateMemory", res |-> "VK_ERROR_OUT_OF_DEVICE_MEMORY",
                        asserted |-> TRUE]
            /\ hist' = [madeLost |-> {}]
            /\ UNCHANGED <<m_Blocks, hAllocations, m_HasEmptyBlock>>
       ELSE IF createInfo.pool
       THEN \E r \in {VmaBlockVector_Allocate(BlockVector, m_CurrentFrameIndex,
                          m_FrameInUseCount, createInfo, pAllocation, vkAllocateMemory,
                          vkMapMemory)} :
                /\ m_Blocks' = r.bv.m_Blocks
                /\ m_HasEmptyBlock' = r.bv.m_HasEmptyBlock
                /\ hAllocations' = r.bv.allocs
                /\ ret' = [op |-> "AllocateMemory", res |-> r.res, asserted |-> FALSE]
                /\ hist' = [madeLost |-> MadeLost(hAllocations, r.bv.allocs)]
       ELSE \E r \in {AllocateDedicatedMemory(m_CurrentFrameIndex, createInfo,
                          m_MaxBlockCount + pAllocation, vkAllocateMemory, vkMapMemory)} :
                /\ hAllocations' = IF r.res = "VK_SUCCESS"
                                   THEN [hAllocations EXCEPT ![pAllocation] = r.alloc]
                                   ELSE hAllocations
                /\ ret' = [op |-> "AllocateMemory", res |-> r.res, asserted |-> FALSE]
                /\ hist' = [madeLost |-> {}]
                /\ UNCHANGED <<m_Blocks, m_HasEmptyBlock>>

\* VmaAllocator_T::FreeMemory of an allocation the caller holds.
FreeMemory(allocation) ==
    /\ allocation \in LiveHandles
    /\ UNCHANGED <<m_CurrentFrameIndex, m_FrameInUseCount, m_MinBlockCount, m_HeapSizeLimit, m_Pools, threads>>
    /\ ret' = [op |-> "FreeMemory", res |-> "VK_SUCCESS"]
    /\ hist' = [madeLost |-> {}]
    /\ IF /\ \/ ~CanBecomeLost(hAllocations[allocation])
             \/ GetLastUseFrameIndex(hAllocations[allocation]) # VMA_FRAME_INDEX_LOST
          /\ hAllocations[allocation].m_Type = "BLOCK"
       THEN \E bv \in {VmaBlockVector_Free(BlockVector, allocation)} :
                /\ m_Blocks' = bv.m_Blocks
                /\ m_HasEmptyBlock' = bv.m_HasEmptyBlock
                /\ hAllocations' = [bv.allocs EXCEPT ![allocation] = NoAllocation]
       ELSE /\ hAllocations' = [hAllocations EXCEPT ![allocation] = NoAllocation]
            /\ UNCHANGED <<m_Blocks, m_HasEmptyBlock>>

\* VmaAllocator_T::TouchAllocation.
TouchAllocationCall(hAllocation) ==
    /\ hAllocation \in LiveHandles
    /\ \E t \in {TouchAllocation(hAllocations[hAllocation], m_CurrentFrameIndex)} :
           /\ hAllocations' = [hAllocations EXCEPT ![hAllocation] = t.alloc]
           /\ ret' = [op |-> "TouchAllocation", res |-> t.ret]
    /\ hist' = [madeLost |-> {}]
    /\ UNCHANGED <<m_Blocks, m_CurrentFrameIndex, m_FrameInUseCount, m_MinBlockCount, m_HeapSizeLimit, m_Pools, m_HasEmptyBlock,
                   threads>>

\* VmaAllocator_T::SetCurrentFrameIndex; vmaSetCurrentFrameIndex takes any index
\* but VMA_FRAME_INDEX_LOST.
SetCurrentFrameIndex(frameIndex) ==
    /\ frameIndex # VMA_FRAME_INDEX_LOST
    /\ m_CurrentFrameIndex' = frameIndex
    /\ ret' = [op |-> "SetCurrentFrameIndex", res |-> "VK_SUCCESS"]
    /\ hist' = [madeLost |-> {}]
    /\ UNCHANGED <<m_Blocks, hAllocations, m_FrameInUseCount, m_MinBlockCount, m_HeapSizeLimit, m_Pools, m_HasEmptyBlock, threads>>

\* VmaAllocator_T::MakePoolAllocationsLost.
MakePoolAllocationsLost ==
    /\ \E r \in {VmaBlockVector_MakePoolAllocationsLost(BlockVector, m_CurrentFrameIndex,
                     m_FrameInUseCount)} :
           /\ m_Blocks' = r.bv.m_Blocks
           /\ hAllocations' = r.bv.allocs
           /\ ret' = [op |-> "MakePoolAllocationsLost", res |-> r.lostAllocationCount]
           /\ hist' = [madeLost |-> MadeLost(hAllocations, r.bv.allocs)]
    /\ UNCHANGED <<m_CurrentFrameIndex, m_FrameInUseCount, m_MinBlockCount, m_HeapSizeLimit, m_Pools, m_HasEmptyBlock, threads>>

\* VmaAllocator_T::Defragment of the allocations pAllocations, which are all
\* the caller holds or one of them.  Those that are
\* block allocations and not lost are added to the pool's defragmentator; with
\* none of them no defragmentator is made and the vector is left alone.
Defragment(pAllocations, pDefragmentationInfo, vkMapMemory) ==
    /\ pAllocations \subseteq LiveHandles
    /\ pAllocations # {}
    /\ UNCHANGED <<m_CurrentFrameIndex, m_FrameInUseCount, m_MinBlockCount, m_HeapSizeLimit, m_Pools, threads>>
    /\ hist' = [madeLost |-> {}]
    /\ \E added \in {{h \in pAllocations :
                        /\ hAllocations[h].m_Type = "BLOCK"
                        /\ GetLastUseFrameIndex(hAllocations[h]) # VMA_FRAME_INDEX_LOST}} :
           IF added = {}
           THEN /\ ret' = [op |-> "Defragment", res |-> "VK_SUCCESS", bytesMoved |-> 0,
                           allocationsMoved |-> 0, pAllocations |-> pAllocations,
                           moves |-> << >>]
                /\ UNCHANGED <<m_Blocks, hAllocations, m_HasEmptyBlock>>
           ELSE \E infos \in SortedBlockInfos(BlockVector, added) :
                \E r \in {VmaBlockVector_Defragment(BlockVector, infos,
                              m_CurrentFrameIndex, m_FrameInUseCount,
                              pDefragmentationInfo.maxBytesToMove,
                              pDefragmentationInfo.maxAllocationsToMove, vkMapMemory)} :
                    /\ m_Blocks' = r.bv.m_Blocks
                    /\ m_HasEmptyBlock' = r.bv.m_HasEmptyBlock
                    /\ hAllocations' = r.bv.allocs
                    /\ ret' = [op |-> "Defragment", res |-> r.res,
                               bytesMoved |-> r.bytesMoved,
                               allocationsMoved |-> r.allocationsMoved,
                               pAllocations |-> pAllocations,
                               moves |-> r.moves]

Next ==
    \/ \E pAllocation \in DOMAIN hAllocations :
       \E createInfo \in CreateInfos[pAllocation] :
       \E vkAllocateMemory \in VkAllocateMemoryResults :
       \E vkMapMemory \in VkMapMemoryResults :
           AllocateMemory(createInfo, pAllocation, vkAllocateMemory, vkMapMemory)
    \/ \E allocation \in DOMAIN hAllocations : FreeMemory(allocation)
    \/ \E hAllocation \in DOMAIN hAllocations : TouchAllocationCall(hAllocation)
    \/ \E frameIndex \in {m_CurrentFrameIndex + 1} \cap 0..MaxFrame :
           SetCurrentFrameIndex(frameIndex)
    \/ MakePoolAllocationsLost
    \/ \E pAllocations \in {LiveHandles} \cup {{h} : h \in LiveHandles} :
       \E call \in DefragmentCalls :
           Defragment(pAllocations, call.pDefragmentationInfo, call.vkMapMemory)

Spec == Init /\ [][Next]_vars

(***************************************************************************)
(* SpecMakeLost: one allocation that can become lost, alone in the pool,   *)
(* with every frame index the application may set and every                *)
(* VmaAllocatorCreateInfo::frameInUseCount up to MaxFrameInUseCount, to    *)
(* look at the test VmaAllocation_T::MakeLost makes.  Calls run from start *)
(* to end.                                                                 *)
(***************************************************************************)
MaxFrameInUseCount == 3

\* The request for the allocation: a buffer made with
\* VMA_ALLOCATION_CREATE_CAN_BECOME_LOST_BIT in the pool.
LostableCreateInfo ==
    [size |-> 16, alignment |-> 1, type |-> VMA_SUBALLOCATION_TYPE_BUFFER,
     pool |-> TRUE, dedicatedMemory |-> FALSE, neverAllocate |-> FALSE,
     mapped |-> FALSE, canBecomeLost |-> TRUE, canMakeOtherLost |-> FALSE]

MakeLostInit ==
    /\ m_Blocks = << >>
    /\ hAllocations = << NoAllocation >>
    /\ m_CurrentFrameIndex = 0
    /\ m_FrameInUseCount \in 0..MaxFrameInUseCount
    /\ m_MinBlockCount = 0
    /\ m_HeapSizeLimit = VK_WHOLE_SIZE
    /\ m_Pools = << >>
    /\ m_HasEmptyBlock = FALSE
    /\ ret = [op |-> "Init", res |-> "VK_SUCCESS"]
    /\ threads = NoThreads
    /\ hist = [madeLost |-> {}]

\* vmaMakePoolAllocationsLost while the allocation is in the pool and not lost:
\* the sweep calls MakeLost on it, and counts it when MakeLost returns true.
\* ret keeps the last-use frame index the call found.
MakeLostSweep(hAllocation) ==
    /\ hAllocation \in LiveHandles
    /\ GetLastUseFrameIndex(hAllocations[hAllocation]) # VMA_FRAME_INDEX_LOST
    /\ \E r \in {VmaBlockVector_MakePoolAllocationsLost(BlockVector, m_CurrentFrameIndex,
                     m_FrameInUseCount)} :
           /\ m_Blocks' = r.bv.m_Blocks
           /\ hAllocations' = r.bv.allocs
           /\ ret' = [op |-> "MakeLost", res |-> r.lostAllocationCount = 1,
                      lastUseFrameIndex |-> GetLastUseFrameIndex(hAllocations[hAllocation])]
           /\ hist' = [madeLost |-> MadeLost(hAllocations, r.bv.allocs)]
    /\ UNCHANGED <<m_CurrentFrameIndex, m_FrameInUseCount, m_MinBlockCount, m_HeapSizeLimit, m_Pools, m_HasEmptyBlock, threads>>

MakeLostNext ==
    \/ AllocateMemory(LostableCreateInfo, 1, "VK_SUCCESS", "VK_SUCCESS")
    \/ FreeMemory(1)
    \/ TouchAllocationCall(1)
    \/ \E frameIndex \in 0..(FrameMod - 2) : SetCurrentFrameIndex(frameIndex)
    \/ MakeLostSweep(1)

SpecMakeLost == MakeLostInit /\ [][MakeLostNext]_vars

(***************************************************************************)
(* SpecTouch: threads on one allocation that can become lost.  Allocation  *)
(* 1 lies at offset 16 of the pool's only block, behind a hole left by an  *)
(* allocation that was freed.  Threads 1 and 2 run TouchAllocation and     *)
(* GetAllocationInfo, which take no lock; thread LockThread runs the calls *)
(* that hold the block vector's mutex: vmaMakePoolAllocationsLost, an      *)
(* AllocateMemory of the whole block that may make others lost (its        *)
(* VmaAllocation_T is allocation 2) and Defragment.  A step of a thread is *)
(* one access to m_CurrentFrameIndex or m_LastUseFrameIndex, both atomic,  *)
(* with the code that follows it up to the next access.  A thread is       *)
(* [pc, op, localCurrFrameIndex, localLastUseFrameIndex, tryIndex,         *)
(* afterLoss]; for LockThread localCurrFrameIndex is the currentFrameIndex *)
(* its call was given.  afterLoss tells that the call began when the       *)
(* allocation was lost already.  hist keeps the highest frame index        *)
(* m_LastUseFrameIndex has held, the highest frame for which a             *)
(* TouchAllocation returned true before the allocation was lost, and       *)
(* m_CurrentFrameIndex at the exchange that made it lost, -1 standing for  *)
(* none.                                                                   *)
(***************************************************************************)
TouchThreads == {1, 2}
LockThread == 3

IdleThread ==
    [pc |-> "idle", op |-> "", localCurrFrameIndex |-> 0, localLastUseFrameIndex |-> 0,
     tryIndex |-> 0, afterLoss |-> FALSE, pool |-> TRUE]

\* The request of the evicting AllocateMemory: the whole block, never a new one.
EvictingCreateInfo ==
    [size |-> m_PreferredBlockSize, alignment |-> 1, type |-> VMA_SUBALLOCATION_TYPE_BUFFER,
     pool |-> TRUE, dedicatedMemory |-> FALSE, neverAllocate |-> TRUE,
     mapped |-> FALSE, canBecomeLost |-> FALSE, canMakeOtherLost |-> TRUE]

\* What a call leaves in ret: the call, its VkResult, the VkResult of the
\* VmaBlockVector::Allocate in it, what TouchAllocation returned, what GetAllocationInfo wrote to pAllocationInfo, the count of
\* MakePoolAllocationsLost, and whether the call began after allocation 1 was
\* lost.  The fields a call does not set hold the values of NoRet.
NoRet ==
    [op |-> "Init", res |-> "VK_SUCCESS", blockVectorRes |-> "VK_SUCCESS",
     touched |-> FALSE,
     pAllocationInfo |-> [deviceMemory |-> VK_NULL_HANDLE, offset |-> 0, size |-> 0],
     lostAllocationCount |-> 0, afterLoss |-> FALSE]

TouchInit ==
    /\ \E bv \in {VmaBlockVector_Free(
                     VmaBlockVector_Allocate(
                         VmaBlockVector_Allocate(
                             [m_Blocks |-> << >>, m_HasEmptyBlock |-> FALSE,
                              allocs |-> << NoAllocation, NoAllocation >>],
                             0, 0, [LostableCreateInfo EXCEPT !.canBecomeLost = FALSE],
                             2, "VK_SUCCESS", "VK_SUCCESS").bv,
                         0, 0, LostableCreateInfo, 1, "VK_SUCCESS", "VK_SUCCESS").bv,
                     2)} :
           /\ m_Blocks = bv.m_Blocks
           /\ m_HasEmptyBlock = bv.m_HasEmptyBlock
           /\ hAllocations = [bv.allocs EXCEPT ![2] = NoAllocation]
    /\ m_CurrentFrameIndex = 0
    /\ m_FrameInUseCount = 0
    /\ m_MinBlockCount = 0
    /\ m_HeapSizeLimit = VK_WHOLE_SIZE
    /\ m_Pools = << >>
    /\ ret = NoRet
    /\ threads = [t \in TouchThreads \cup {LockThread} |-> IdleThread]
    /\ hist = [highestLastUse |-> 0, touchedFrame |-> -1, lostAtFrame |-> -1]

\* What a step leaves in hist when it leaves allocation 1 as alloc and a
\* TouchAllocation returns from it with touched for frame localCurrFrameIndex.
TouchHist(alloc, touched, localCurrFrameIndex) ==
    [highestLastUse |->
         IF GetLastUseFrameIndex(alloc) = VMA_FRAME_INDEX_LOST THEN hist.highestLastUse
         ELSE VMA_MAX(hist.highestLastUse, GetLastUseFrameIndex(alloc)),
     touchedFrame |->
         IF touched /\ hist.lostAtFrame = -1
         THEN VMA_MAX(hist.touchedFrame, localCurrFrameIndex)
         ELSE hist.touchedFrame,
     lostAtFrame |->
         IF /\ GetLastUseFrameIndex(alloc) = VMA_FRAME_INDEX_LOST
            /\ GetLastUseFrameIndex(hAllocations[1]) # VMA_FRAME_INDEX_LOST
         THEN m_CurrentFrameIndex
         ELSE hist.lostAtFrame]

\* TouchAllocation or GetAllocationInfo begins: hAllocation->CanBecomeLost()
\* and m_CurrentFrameIndex.load().
TouchBegin(t, op) ==
    /\ threads[t].pc = "idle"
    /\ CanBecomeLost(hAllocations[1])
    /\ threads' = [threads EXCEPT ![t] =
           [IdleThread EXCEPT !.pc = "GetLastUseFrameIndex", !.op = op,
                              !.localCurrFrameIndex = m_CurrentFrameIndex,
                              !.afterLoss = GetLastUseFrameIndex(hAllocations[1])
                                                = VMA_FRAME_INDEX_LOST]]
    /\ UNCHANGED <<m_Blocks, hAllocations, m_CurrentFrameIndex, m_FrameInUseCount, m_MinBlockCount, m_HeapSizeLimit, m_Pools,
                   m_HasEmptyBlock, ret, hist>>

\* hAllocation->GetLastUseFrameIndex() before the loop, of either thread kind.
LoadLastUseFrameIndex(t) ==
    /\ threads[t].pc = "GetLastUseFrameIndex"
    /\ threads' = [threads EXCEPT ![t].pc = "loop",
                                  ![t].localLastUseFrameIndex =
                                      GetLastUseFrameIndex(hAllocations[1])]
    /\ UNCHANGED <<m_Blocks, hAllocations, m_CurrentFrameIndex, m_FrameInUseCount, m_MinBlockCount, m_HeapSizeLimit, m_Pools,
                   m_HasEmptyBlock, ret, hist>>

\* One turn of the loop of TouchAllocation or GetAllocationInfo; the call
\* returns when the loop is left, GetAllocationInfo with what it has written
\* to pAllocationInfo.
TouchTurn(t) ==
    /\ t \in TouchThreads
    /\ threads[t].pc = "loop"
    /\ \E it \in {TouchIteration(hAllocations[1], threads[t].localCurrFrameIndex,
                      threads[t].localLastUseFrameIndex)} :
           /\ hAllocations' = [hAllocations EXCEPT ![1] = it.alloc]
           /\ hist' = TouchHist(it.alloc,
                          it.done /\ it.ret /\ threads[t].op = "TouchAllocation",
                          threads[t].localCurrFrameIndex)
           /\ IF it.done
              THEN /\ threads' = [threads EXCEPT ![t] = IdleThread]
                   /\ ret' = IF threads[t].op = "TouchAllocation"
                              THEN [NoRet EXCEPT !.op = threads[t].op,
                                                 !.touched = it.ret,
                                                 !.afterLoss = threads[t].afterLoss]
                              ELSE [NoRet EXCEPT
                                       !.op = threads[t].op,
                                       !.pAllocationInfo =
                                           IF it.ret
                                           THEN [deviceMemory |-> GetMemory(it.alloc),
                                                 offset |-> GetOffset(it.alloc),
                                                 size |-> it.alloc.m_Size]
                                           ELSE [deviceMemory |-> VK_NULL_HANDLE,
                                                 offset |-> 0,
                                                 size |-> it.alloc.m_Size],
                                       !.afterLoss = threads[t].afterLoss]
              ELSE /\ threads' = [threads EXCEPT ![t].localLastUseFrameIndex =
                                                     it.localLastUseFrameIndex]
                   /\ UNCHANGED ret
    /\ UNCHANGED <<m_Blocks, m_CurrentFrameIndex, m_FrameInUseCount, m_MinBlockCount, m_HeapSizeLimit, m_Pools, m_HasEmptyBlock>>

\* SetCurrentFrameIndex with the next frame, by the thread that presents.
TouchSetCurrentFrameIndex ==
    /\ m_CurrentFrameIndex < MaxFrame
    /\ m_CurrentFrameIndex' = m_CurrentFrameIndex + 1
    /\ UNCHANGED <<m_Blocks, hAllocations, m_FrameInUseCount, m_MinBlockCount, m_HeapSizeLimit, m_Pools, m_HasEmptyBlock, ret,
                   threads, hist>>

\* The allocations MakeAllocationsLost calls MakeLost on: those of the used
\* suballocations that can become lost.
LostableInPool ==
    {h \in DOMAIN hAllocations :
        /\ CanBecomeLost(hAllocations[h])
        /\ \E b \in 1..Len(m_Blocks) :
               FindAllocation(m_Blocks[b].m_Metadata, h) # 0}

\* The request of the AllocateMemory LockThread is in: from the custom pool or,
\* without a pool, from the block vector of the memory type.
LockCreateInfo ==
    [EvictingCreateInfo EXCEPT !.pool = threads[LockThread].pool]

\* VmaAllocator_T::AllocateMemoryOfType once blockVector->Allocate has returned
\* blockVectorRes; dedicatedRes is what AllocateDedicatedMemory returns when it
\* is tried.
AllocateMemoryOfType(createInfo, blockVectorRes, dedicatedRes) ==
    IF blockVectorRes = "VK_SUCCESS" THEN blockVectorRes
    ELSE IF createInfo.neverAllocate THEN "VK_ERROR_OUT_OF_DEVICE_MEMORY"
    ELSE dedicatedRes

\* What VmaAllocator_T::AllocateMemory returns once the block vector has
\* returned blockVectorRes.  With a pool it is the vector's result; without
\* one, and with one memory type that fits, a failure of AllocateMemoryOfType
\* is followed by a vmaFindMemoryTypeIndex that finds no other type.
AllocateMemoryResult(createInfo, blockVectorRes, dedicatedRes) ==
    IF createInfo.pool THEN blockVectorRes
    ELSE IF AllocateMemoryOfType(createInfo, blockVectorRes, dedicatedRes) = "VK_SUCCESS"
    THEN "VK_SUCCESS"
    ELSE "VK_ERROR_OUT_OF_DEVICE_MEMORY"

\* A call of LockThread returns res, leaving the vector as bv; res is what
\* the block vector returned when the call is an AllocateMemory.
LockReturn(op, res, bv) ==
    /\ threads' = [threads EXCEPT ![LockThread] = IdleThread]
    /\ m_Blocks' = bv.m_Blocks
    /\ m_HasEmptyBlock' = bv.m_HasEmptyBlock
    /\ hAllocations' = bv.allocs
    /\ hist' = TouchHist(bv.allocs[1], FALSE, 0)
    /\ ret' = IF op = "MakePoolAllocationsLost"
               THEN [NoRet EXCEPT !.op = op, !.lostAllocationCount = res]
               ELSE IF op = "AllocateMemory"
               THEN [NoRet EXCEPT !.op = op, !.blockVectorRes = res,
                                  !.res = AllocateMemoryResult(LockCreateInfo, res,
                                              "VK_ERROR_OUT_OF_DEVICE_MEMORY")]
               ELSE [NoRet EXCEPT !.op = op, !.res = res]
    /\ UNCHANGED <<m_CurrentFrameIndex, m_FrameInUseCount, m_MinBlockCount, m_HeapSizeLimit, m_Pools>>

\* LockThread goes on in its call.
LockGoto(pc, op, localCurrFrameIndex, tryIndex) ==
    /\ threads' = [threads EXCEPT ![LockThread] =
           [IdleThread EXCEPT !.pc = pc, !.op = op,
                              !.localCurrFrameIndex = localCurrFrameIndex,
                              !.tryIndex = tryIndex,
                              !.pool = threads[LockThread].pool]]
    /\ UNCHANGED <<m_Blocks, hAllocations, m_CurrentFrameIndex, m_FrameInUseCount, m_MinBlockCount, m_HeapSizeLimit, m_Pools,
                   m_HasEmptyBlock, ret, hist>>

\* vmaMakePoolAllocationsLost begins: m_CurrentFrameIndex.load(), the mutex,
\* and the suballocations up to the first that can become lost.
MakePoolAllocationsLostBegin ==
    /\ threads[LockThread].pc = "idle"
    /\ IF LostableInPool = {}
       THEN LockReturn("MakePoolAllocationsLost", 0, BlockVector)
       ELSE LockGoto("GetLastUseFrameIndex", "MakePoolAllocationsLost",
                     m_CurrentFrameIndex, 0)

\* AllocateMemory of EvictingCreateInfo, from the pool or without a pool,
\* begins: m_CurrentFrameIndex.load(), the mutex, and steps 1 and 2 of
\* VmaBlockVector::Allocate, which read no last-use frame index.
AllocateMemoryBegin(pool) ==
    /\ threads[LockThread].pc = "idle"
    /\ hAllocations[2].m_Type = "NONE"
    /\ \E r \in {VmaBlockVector_Allocate(BlockVector, m_CurrentFrameIndex,
                     m_FrameInUseCount,
                     [EvictingCreateInfo EXCEPT !.canMakeOtherLost = FALSE,
                                                !.pool = pool], 2,
                     "VK_SUCCESS", "VK_SUCCESS")} :
           IF r.res = "VK_SUCCESS"
           THEN LockReturn("AllocateMemory", r.res, r.bv)
           ELSE /\ threads' = [threads EXCEPT ![LockThread] =
                       [IdleThread EXCEPT !.pc = "search", !.op = "AllocateMemory",
                                          !.localCurrFrameIndex = m_CurrentFrameIndex,
                                          !.pool = pool]]
                /\ UNCHANGED <<m_Blocks, hAllocations, m_CurrentFrameIndex,
                               m_FrameInUseCount, m_MinBlockCount, m_HeapSizeLimit, m_Pools, m_HasEmptyBlock, ret, hist>>

\* The round of step 3 without the limit of VMA_ALLOCATION_TRY_COUNT rounds.
AllocateMemorySearch_NoTryCount ==
    /\ threads[LockThread].pc = "search"
    /\ \E best \in {BestRequestBlock(BlockVector,
                        threads[LockThread].localCurrFrameIndex, m_FrameInUseCount,
                        LockCreateInfo, 1,
                        [block |-> 0, request |-> NoRequest, cost |-> VK_WHOLE_SIZE])} :
           IF best.block = 0
           THEN LockReturn("AllocateMemory", "VK_ERROR_OUT_OF_DEVICE_MEMORY", BlockVector)
           ELSE LockGoto("GetLastUseFrameIndex", "AllocateMemory",
                         threads[LockThread].localCurrFrameIndex,
                         threads[LockThread].tryIndex)

\* One round of step 3 up to MakeRequestedAllocationsLost: the search for the
\* best request, which reads the last-use frame index of allocation 1.
AllocateMemorySearch ==
    /\ threads[LockThread].pc = "search"
    /\ IF threads[LockThread].tryIndex >= VMA_ALLOCATION_TRY_COUNT
       THEN LockReturn("AllocateMemory", "VK_ERROR_TOO_MANY_OBJECTS", BlockVector)
       ELSE \E best \in {BestRequestBlock(BlockVector,
                             threads[LockThread].localCurrFrameIndex, m_FrameInUseCount,
                             LockCreateInfo, 1,
                             [block |-> 0, request |-> NoRequest,
                              cost |-> VK_WHOLE_SIZE])} :
                IF best.block = 0
                THEN LockReturn("AllocateMemory", "VK_ERROR_OUT_OF_DEVICE_MEMORY",
                                BlockVector)
                ELSE LockGoto("GetLastUseFrameIndex", "AllocateMemory",
                              threads[LockThread].localCurrFrameIndex,
                              threads[LockThread].tryIndex)

\* One turn of the loop of MakeLost on allocation 1.  When the exchange has
\* stored VMA_FRAME_INDEX_LOST the allocation held the value that was tested,
\* and the rest of the call, which runs under the mutex and reads no last-use
\* frame index again, is what the call does on this state without another
\* thread in between.  When MakeLost returns false the sweep has lost nothing
\* and the allocating call goes to its next round.
MakeLostTurn ==
    /\ threads[LockThread].pc = "loop"
    /\ \E it \in {MakeLostIteration(hAllocations[1],
                      threads[LockThread].localCurrFrameIndex, m_FrameInUseCount,
                      threads[LockThread].localLastUseFrameIndex)} :
           IF ~it.done
           THEN /\ threads' = [threads EXCEPT ![LockThread].localLastUseFrameIndex =
                                                  it.localLastUseFrameIndex]
                /\ UNCHANGED <<m_Blocks, hAllocations, m_CurrentFrameIndex,
                               m_FrameInUseCount, m_MinBlockCount, m_HeapSizeLimit, m_Pools, m_HasEmptyBlock, ret, hist>>
           ELSE IF threads[LockThread].op = "MakePoolAllocationsLost"
           THEN \E r \in {VmaBlockVector_MakePoolAllocationsLost(BlockVector,
                              threads[LockThread].localCurrFrameIndex,
                              m_FrameInUseCount)} :
                    LockReturn("MakePoolAllocationsLost", r.lostAllocationCount, r.bv)
           ELSE IF it.ret
           THEN \E r \in {AllocateMakeOtherLost(BlockVector,
                              threads[LockThread].localCurrFrameIndex,
                              m_FrameInUseCount, LockCreateInfo, 2, "VK_SUCCESS",
                              threads[LockThread].tryIndex)} :
                    LockReturn("AllocateMemory", r.res, r.bv)
           ELSE LockGoto("search", "AllocateMemory",
                         threads[LockThread].localCurrFrameIndex,
                         threads[LockThread].tryIndex + 1)

\* Defragment of the allocations that exist, with no limit, while no other
\* call holds the mutex.
TouchDefragment ==
    /\ threads[LockThread].pc = "idle"
    /\ \E added \in {{h \in LiveHandles :
                        /\ hAllocations[h].m_Type = "BLOCK"
                        /\ GetLastUseFrameIndex(hAllocations[h]) # VMA_FRAME_INDEX_LOST}} :
           /\ added # {}
           /\ \E infos \in SortedBlockInfos(BlockVector, added) :
              \E r \in {VmaBlockVector_Defragment(BlockVector, infos, m_CurrentFrameIndex,
                            m_FrameInUseCount, SIZE_MAX, UINT32_MAX,
                            [b \in 1..m_MaxBlockCount |-> "VK_SUCCESS"])} :
                  LockReturn("Defragment", r.res, r.bv)

TouchNext ==
    \/ \E t \in TouchThreads : \E op \in {"TouchAllocation", "GetAllocationInfo"} :
           TouchBegin(t, op)
    \/ \E t \in TouchThreads \cup {LockThread} : LoadLastUseFrameIndex(t)
    \/ \E t \in TouchThreads : TouchTurn(t)
    \/ TouchSetCurrentFrameIndex
    \/ MakePoolAllocationsLostBegin
    \/ AllocateMemoryBegin(TRUE)
    \/ AllocateMemorySearch
    \/ MakeLostTurn
    \/ TouchDefragment

SpecTouch == TouchInit /\ [][TouchNext]_vars

(***************************************************************************)
(* Step 3 of VmaBlockVector::Allocate against a thread that touches the    *)
(* allocation to evict while vmaSetCurrentFrameIndex sets any frame index: *)
(* the touching thread can move the last-use frame index into and out of   *)
(* the window of the allocating call any number of times.  The allocating  *)
(* thread is scheduled fairly, and its compare-exchange in MakeLost does   *)
(* not lose against the touching thread for ever.                          *)
(***************************************************************************)
EvictToucher == 1

\* vmaSetCurrentFrameIndex(frameIndex) by the application.
EvictSetCurrentFrameIndex(frameIndex) ==
    /\ frameIndex # VMA_FRAME_INDEX_LOST
    /\ frameIndex # m_CurrentFrameIndex
    /\ m_CurrentFrameIndex' = frameIndex
    /\ UNCHANGED <<m_Blocks, hAllocations, m_FrameInUseCount, m_MinBlockCount, m_HeapSizeLimit, m_Pools, m_HasEmptyBlock, ret,
                   threads, hist>>

EvictNext ==
    \/ TouchBegin(EvictToucher, "TouchAllocation")
    \/ \E t \in {EvictToucher, LockThread} : LoadLastUseFrameIndex(t)
    \/ TouchTurn(EvictToucher)
    \/ \E frameIndex \in 0..MaxFrame : EvictSetCurrentFrameIndex(frameIndex)
    \/ \E pool \in BOOLEAN : AllocateMemoryBegin(pool)
    \/ AllocateMemorySearch
    \/ MakeLostTurn

\* A step of the allocating thread in its call: no other thread writes
\* threads[LockThread].
LockThreadStep ==
    threads'[LockThread] # threads[LockThread]

\* The turn of MakeLost that LockThread is about to make leaves the loop: the
\* value it holds is VMA_FRAME_INDEX_LOST or in the window, or it is the value
\* the allocation holds and the compare-exchange stores VMA_FRAME_INDEX_LOST.
LeavesLoopEnabled ==
    /\ threads[LockThread].pc = "loop"
    /\ MakeLostIteration(hAllocations[1], threads[LockThread].localCurrFrameIndex,
           m_FrameInUseCount, threads[LockThread].localLastUseFrameIndex).done

LeavesLoop ==
    threads[LockThread].pc = "loop" /\ threads'[LockThread].pc # "loop"

\* Weak fairness of the steps of the allocating thread in its call, one of
\* which is enabled whenever it is not idle, and strong fairness of the turn
\* that leaves the loop of MakeLost; WF_threads(A) and SF_threads(A) are
\* written out as []<>~ENABLED <<A>>_threads \/ []<><<A>>_threads and
\* <>[]~ENABLED <<A>>_threads \/ []<><<A>>_threads with the enabling
\* conditions stated as predicates of the state.
SpecEvict ==
    /\ TouchInit
    /\ [][EvictNext]_vars
    /\ \/ []<>(threads[LockThread].pc = "idle")
       \/ []<><<LockThreadStep>>_threads
    /\ \/ <>[]~LeavesLoopEnabled
       \/ []<><<LeavesLoop>>_threads




(***************************************************************************)
(* SpecMap: the pool and dedicated memory with vmaMapMemory and            *)
(* vmaUnmapMemory.  The application makes each of its allocations with one *)
(* VmaAllocationCreateInfo, which threads.createInfo keeps, unmaps only    *)
(* what it has mapped and frees only what it has unmapped.                 *)
(***************************************************************************)
\* How many times the application maps one allocation at once.
MaxMapCount == 2

\* The VmaAllocationCreateInfo the application may use for each handle.
MapCreateInfos ==
    LET Info(flags) ==
            [size |-> 16, alignment |-> 1, type |-> VMA_SUBALLOCATION_TYPE_BUFFER,
             pool |-> "pool" \in flags,
             dedicatedMemory |-> "DEDICATED_MEMORY" \in flags,
             neverAllocate |-> "NEVER_ALLOCATE" \in flags,
             mapped |-> "MAPPED" \in flags,
             canBecomeLost |-> "CAN_BECOME_LOST" \in flags,
             canMakeOtherLost |-> "CAN_MAKE_OTHER_LOST" \in flags]
    IN  << { Info({"pool"}), Info({"pool", "MAPPED"}) },
           { Info({"pool"}), Info({"pool", "CAN_BECOME_LOST"}) },
           { Info({"DEDICATED_MEMORY", "CAN_BECOME_LOST"}) } >>

\* Defragment of all the application holds, without limits, with a device
\* that maps every block or all but one.
MapDefragmentCalls ==
    {call \in DefragmentCalls : call.pDefragmentationInfo.maxAllocationsToMove = UINT32_MAX
                                   /\ call.pDefragmentationInfo.maxBytesToMove = SIZE_MAX}

MapInit ==
    /\ m_Blocks = << >>
    /\ hAllocations = [h \in DOMAIN MapCreateInfos |-> NoAllocation]
    /\ m_CurrentFrameIndex = 0
    /\ m_FrameInUseCount = 0
    /\ m_MinBlockCount = 0
    /\ m_HeapSizeLimit = VK_WHOLE_SIZE
    /\ m_Pools = << >>
    /\ m_HasEmptyBlock = FALSE
    /\ ret = [op |-> "Init", res |-> "VK_SUCCESS"]
    /\ threads \in {[createInfo |-> <<a, b, c>>] :
                        a \in MapCreateInfos[1], b \in MapCreateInfos[2],
                        c \in MapCreateInfos[3]}
    /\ hist = [madeLost |-> {}]

\* The reference count of vmaMapMemory in m_MapCount, without
\* MAP_COUNT_FLAG_PERSISTENT_MAP.
MapRefCount(alloc) == alloc.m_MapCount % MAP_COUNT_FLAG_PERSISTENT_MAP

BlockAllocMap(alloc) ==
    IF MapRefCount(alloc) < 127 THEN [alloc EXCEPT !.m_MapCount = @ + 1] ELSE alloc

BlockAllocUnmap(alloc) ==
    IF MapRefCount(alloc) # 0 THEN [alloc EXCEPT !.m_MapCount = @ - 1] ELSE alloc

\* Returns [res, alloc, vkMapMemory], the last telling whether the device was
\* called.
DedicatedAllocMap(alloc, vkMapMemory) ==
    IF alloc.m_MapCount # 0
    THEN IF MapRefCount(alloc) < 127
         THEN [res |-> "VK_SUCCESS", alloc |-> [alloc EXCEPT !.m_MapCount = @ + 1],
               vkMapMemory |-> FALSE]
         ELSE [res |-> "VK_ERROR_MEMORY_MAP_FAILED", alloc |-> alloc,
               vkMapMemory |-> FALSE]
    ELSE IF vkMapMemory = "VK_SUCCESS"
    THEN [res |-> "VK_SUCCESS", alloc |-> [alloc EXCEPT !.m_MapCount = 1],
          vkMapMemory |-> TRUE]
    ELSE [res |-> vkMapMemory, alloc |-> alloc, vkMapMemory |-> TRUE]

DedicatedAllocUnmap(alloc) ==
    IF MapRefCount(alloc) # 0 THEN [alloc EXCEPT !.m_MapCount = @ - 1] ELSE alloc

\* VmaAllocator_T::Map, which vmaMapMemory calls.  ret.vkMapMemory tells
\* whether the device was asked to map.
MapMemory(allocation, vkMapMemory) ==
    /\ allocation \in LiveHandles
    /\ MapRefCount(hAllocations[allocation]) < MaxMapCount
    /\ UNCHANGED <<m_CurrentFrameIndex, m_FrameInUseCount, m_MinBlockCount, m_HeapSizeLimit, m_Pools, m_HasEmptyBlock, threads>>
    /\ hist' = [madeLost |-> {}]
    /\ IF CanBecomeLost(hAllocations[allocation])
       THEN /\ ret' = [op |-> "MapMemory", res |-> "VK_ERROR_MEMORY_MAP_FAILED",
                       allocation |-> allocation, vkMapMemory |-> FALSE]
            /\ UNCHANGED <<m_Blocks, hAllocations>>
       ELSE IF hAllocations[allocation].m_Type = "BLOCK"
       THEN \E b \in {BlockIndex(m_Blocks, hAllocations[allocation].m_Block)} :
            \E m \in {Map(m_Blocks[b], 1, vkMapMemory)} :
                /\ m_Blocks' = [m_Blocks EXCEPT ![b] = m.block]
                /\ hAllocations' =
                       IF m.res = "VK_SUCCESS"
                       THEN [hAllocations EXCEPT ![allocation] = BlockAllocMap(@)]
                       ELSE hAllocations
                /\ ret' = [op |-> "MapMemory", res |-> m.res, allocation |-> allocation,
                           vkMapMemory |-> m_Blocks[b].m_MapCount = 0]
       ELSE \E m \in {DedicatedAllocMap(hAllocations[allocation], vkMapMemory)} :
                /\ hAllocations' = [hAllocations EXCEPT ![allocation] = m.alloc]
                /\ ret' = [op |-> "MapMemory", res |-> m.res, allocation |-> allocation,
                           vkMapMemory |-> m.vkMapMemory]
                /\ UNCHANGED m_Blocks

\* VmaAllocator_T::Unmap, which vmaUnmapMemory calls, of an allocation the
\* application has mapped.
UnmapMemory(allocation) ==
    /\ allocation \in LiveHandles
    /\ MapRefCount(hAllocations[allocation]) # 0
    /\ UNCHANGED <<m_CurrentFrameIndex, m_FrameInUseCount, m_MinBlockCount, m_HeapSizeLimit, m_Pools, m_HasEmptyBlock, threads>>
    /\ hist' = [madeLost |-> {}]
    /\ ret' = [op |-> "UnmapMemory", res |-> "VK_SUCCESS", allocation |-> allocation]
    /\ IF hAllocations[allocation].m_Type = "BLOCK"
       THEN \E b \in {BlockIndex(m_Blocks, hAllocations[allocation].m_Block)} :
                /\ hAllocations' = [hAllocations EXCEPT ![allocation] = BlockAllocUnmap(@)]
                /\ m_Blocks' = [m_Blocks EXCEPT ![b] = Unmap(@, 1)]
       ELSE /\ hAllocations' = [hAllocations EXCEPT ![allocation] = DedicatedAllocUnmap(@)]
            /\ UNCHANGED m_Blocks

MapNext ==
    \/ \E pAllocation \in DOMAIN hAllocations :
       \E vkAllocateMemory \in VkAllocateMemoryResults :
       \E vkMapMemory \in VkMapMemoryResults :
           AllocateMemory(threads.createInfo[pAllocation], pAllocation, vkAllocateMemory,
               vkMapMemory)
    \/ \E allocation \in DOMAIN hAllocations :
           MapRefCount(hAllocations[allocation]) = 0 /\ FreeMemory(allocation)
    \/ \E allocation \in DOMAIN hAllocations :
       \E vkMapMemory \in VkMapMemoryResults : MapMemory(allocation, vkMapMemory)
    \/ \E allocation \in DOMAIN hAllocations : UnmapMemory(allocation)
    \/ \E frameIndex \in {m_CurrentFrameIndex + 1} \cap 0..MaxFrame :
           SetCurrentFrameIndex(frameIndex)
    \/ MakePoolAllocationsLost
    \/ \E call \in MapDefragmentCalls :
           Defragment(LiveHandles, call.pDefragmentationInfo, call.vkMapMemory)

SpecMap == MapInit /\ [][MapNext]_vars




(***************************************************************************)
(* SpecPool: the custom pool made with VmaPoolCreateInfo::minBlockCount    *)
(* from 1 to m_MaxBlockCount; vmaCreatePool has called CreateMinBlocks.    *)
(***************************************************************************)
\* VmaBlockVector::CreateMinBlocks, every CreateBlock of which succeeded.
RECURSIVE CreateMinBlocks(_, _)
CreateMinBlocks(blocks, minBlockCount) ==
    IF Len(blocks) >= minBlockCount THEN blocks
    ELSE CreateMinBlocks(CreateBlock(blocks, m_PreferredBlockSize, "VK_SUCCESS").blocks,
             minBlockCount)

PoolInit ==
    /\ m_MinBlockCount \in 1..m_MaxBlockCount
    /\ m_HeapSizeLimit = VK_WHOLE_SIZE
    /\ m_Pools = << >>
    /\ m_Blocks = CreateMinBlocks(<< >>, m_MinBlockCount)
    /\ hAllocations = [h \in DOMAIN CreateInfos |-> NoAllocation]
    /\ m_CurrentFrameIndex = 0
    /\ m_FrameInUseCount = 0
    /\ m_HasEmptyBlock = FALSE
    /\ ret = [op |-> "Init", res |-> "VK_SUCCESS"]
    /\ threads = NoThreads
    /\ hist = [madeLost |-> {}]

PoolNext ==
    \/ \E pAllocation \in DOMAIN hAllocations :
       \E createInfo \in CreateInfos[pAllocation] :
       \E vkAllocateMemory \in VkAllocateMemoryResults :
       \E vkMapMemory \in VkMapMemoryResults :
           AllocateMemory(createInfo, pAllocation, vkAllocateMemory, vkMapMemory)
    \/ \E allocation \in DOMAIN hAllocations : FreeMemory(allocation)
    \/ \E frameIndex \in {m_CurrentFrameIndex + 1} \cap 0..MaxFrame :
           SetCurrentFrameIndex(frameIndex)
    \/ \E pAllocations \in {LiveHandles} \cup {{h} : h \in LiveHandles} :
       \E call \in DefragmentCalls :
           Defragment(pAllocations, call.pDefragmentationInfo, call.vkMapMemory)

SpecPool == PoolInit /\ [][PoolNext]_vars

(***************************************************************************)
(* SpecLarge: the custom pool with requests of several sizes and          *)
(* alignments, one of them larger than the pool's VmaPoolCreateInfo::     *)
(* blockSize.                                                              *)
(***************************************************************************)
LargeCreateInfos ==
    LET Info(size, alignment) ==
            [size |-> size, alignment |-> alignment,
             type |-> VMA_SUBALLOCATION_TYPE_BUFFER, pool |-> TRUE,
             dedicatedMemory |-> FALSE, neverAllocate |-> FALSE, mapped |-> FALSE,
             canBecomeLost |-> FALSE, canMakeOtherLost |-> FALSE]
    IN  << { Info(8, 1), Info(m_PreferredBlockSize + 16, 1) },
           { Info(8, 16), Info(24, 1) },
           { Info(16, 16), Info(m_PreferredBlockSize, 1) } >>

LargeNext ==
    \/ \E pAllocation \in DOMAIN hAllocations :
       \E createInfo \in LargeCreateInfos[pAllocation] :
       \E vkAllocateMemory \in VkAllocateMemoryResults :
           AllocateMemory(createInfo, pAllocation, vkAllocateMemory, "VK_SUCCESS")
    \/ \E allocation \in DOMAIN hAllocations : FreeMemory(allocation)

SpecLarge == Init /\ [][LargeNext]_vars

\* C1: after any sequence of Alloc, Free, FreeAtOffset, MakeAllocationsLost and
\* MakeRequestedAllocationsLost on one block's metadata the suballocations
\* start at offset 0, each begins where the previous one ends, their sizes sum
\* to the block size and no two adjacent ones are both FREE.
C1_SuballocationsTileBlock ==
    \A b \in DOMAIN m_Blocks : ValidateSuballocations(m_Blocks[b].m_Metadata)

\* An eviction succeeded and left used and free nodes side by side.
C1_Witness ==
    /\ ret.op = "MakeRequestedAllocationsLost"
    /\ ret.res = "VK_SUCCESS"
    /\ Len(Meta.m_Suballocations) >= 4
    /\ Cardinality(FreeItems(Meta)) >= 2

\* C3: m_FreeSuballocationsBySize holds exactly the FREE suballocations of size
\* at least VMA_MIN_FREE_SUBALLOCATION_SIZE_TO_REGISTER, each once, in
\* ascending size; never a used node nor a node that was merged away.
C3_FreeIndexExact ==
    \A b \in DOMAIN m_Blocks : ValidateFreeSuballocationList(m_Blocks[b].m_Metadata)

\* Two registered free regions and one too small to register, after a free
\* that merged.
C3_Witness ==
    /\ ret.op \in {"Free", "FreeAtOffset"}
    /\ Len(Meta.m_FreeSuballocationsBySize) = 2
    /\ Cardinality(FreeItems(Meta)) = 3

\* C4: after every Alloc, Free, FreeAtOffset and eviction m_SumFreeSize is the
\* sum of the sizes of the FREE suballocations and m_FreeCount their number.
C4_CountersExact ==
    \A b \in DOMAIN m_Blocks : ValidateCounters(m_Blocks[b].m_Metadata)

\* A lost sweep freed at least two allocations and nodes were merged.
C4_Witness ==
    /\ ret.op = "MakeAllocationsLost"
    /\ ret.res >= 2
    /\ Meta.m_FreeCount = 2
    /\ Meta.m_SumFreeSize < Meta.m_Size

\* C5: starting from an empty block, once every region that was allocated has
\* been freed again, in whatever order, the block has a single FREE
\* suballocation at offset 0 of the block's size, m_FreeCount is 1,
\* m_SumFreeSize is the block size and IsEmpty() is true.
C5_RoundTrip ==
    InBlock(Meta) = {} =>
        /\ Len(Meta.m_Suballocations) = 1
        /\ Meta.m_Suballocations[1] =
              [offset |-> 0, size |-> Meta.m_Size, hAllocation |-> VK_NULL_HANDLE,
               type |-> VMA_SUBALLOCATION_TYPE_FREE]
        /\ Meta.m_FreeCount = 1
        /\ Meta.m_SumFreeSize = Meta.m_Size
        /\ IsEmpty(Meta)

\* Three regions were allocated and the last of them has just been freed.
C5_Witness ==
    /\ InBlock(Meta) = {}
    /\ ret.op = "Free"
    /\ Cardinality({h \in DOMAIN hAllocations :
                       hAllocations[h].m_Type = "DELETED"}) >= 3

\* The used suballocations of a block.
UsedItems(meta) ==
    {i \in 1..Len(meta.m_Suballocations) :
        meta.m_Suballocations[i].type # VMA_SUBALLOCATION_TYPE_FREE}

\* The (block, suballocation) positions that reference allocation h.
ReferencesTo(h) ==
    {p \in UNION {{<<b, i>> : i \in UsedItems(m_Blocks[b].m_Metadata)} :
                     b \in 1..Len(m_Blocks)} :
        m_Blocks[p[1]].m_Metadata.m_Suballocations[p[2]].hAllocation = h}

\* The block allocations that exist and are not lost.
LiveBlockAllocations ==
    {h \in DOMAIN hAllocations :
        /\ hAllocations[h].m_Type = "BLOCK"
        /\ hAllocations[h].m_LastUseFrameIndex # VMA_FRAME_INDEX_LOST}

\* C2: after any sequence of AllocateMemory, FreeMemory, evictions, lost
\* sweeps and Defragment every used suballocation references an allocation
\* whose block, offset and size are the suballocation's, every block
\* allocation that exists and is not lost is referenced by exactly one used
\* suballocation, which is in its own block, and no two such allocations of
\* one block overlap.
C2_SuballocationsMatchAllocations ==
    /\ \A b \in 1..Len(m_Blocks) :
          \A i \in UsedItems(m_Blocks[b].m_Metadata) :
              LET s == m_Blocks[b].m_Metadata.m_Suballocations[i]
              IN  /\ s.hAllocation \in DOMAIN hAllocations
                  /\ hAllocations[s.hAllocation].m_Type = "BLOCK"
                  /\ hAllocations[s.hAllocation].m_Block = m_Blocks[b].id
                  /\ hAllocations[s.hAllocation].m_Offset = s.offset
                  /\ hAllocations[s.hAllocation].m_Size = s.size
    /\ \A h \in LiveBlockAllocations :
          /\ Cardinality(ReferencesTo(h)) = 1
          /\ \A p \in ReferencesTo(h) : m_Blocks[p[1]].id = hAllocations[h].m_Block
    /\ \A g, h \in LiveBlockAllocations :
          g # h /\ hAllocations[g].m_Block = hAllocations[h].m_Block =>
              \/ hAllocations[g].m_Offset + hAllocations[g].m_Size
                    <= hAllocations[h].m_Offset
              \/ hAllocations[h].m_Offset + hAllocations[h].m_Size
                    <= hAllocations[g].m_Offset

\* Defragment has moved an allocation next to another one, in a pool where an
\* allocation was made lost before.
C2_Witness ==
    /\ ret.op = "Defragment"
    /\ ret.allocationsMoved >= 1
    /\ \E h \in DOMAIN hAllocations :
           hAllocations[h].m_LastUseFrameIndex = VMA_FRAME_INDEX_LOST
    /\ \E g, h \in LiveBlockAllocations :
           g # h /\ hAllocations[g].m_Block = hAllocations[h].m_Block

\* C6: in any sequence of calls, evicting allocations and lost sweeps among
\* them, with a buffer/image granularity above 1, an allocation made without
\* VMA_ALLOCATION_CREATE_CAN_BECOME_LOST_BIT and every dedicated allocation
\* never has VMA_FRAME_INDEX_LOST as its last-use frame index, and a block
\* allocation made without the flag keeps its used suballocation.
C6_OnlyCanBecomeLostIsLost ==
    /\ m_BufferImageGranularity > 1
    /\ \A h \in DOMAIN hAllocations :
          \/ hAllocations[h].m_Type = "DEDICATED"
          \/ hAllocations[h].m_Type = "BLOCK" /\ ~hAllocations[h].m_CanBecomeLost
          => /\ hAllocations[h].m_LastUseFrameIndex # VMA_FRAME_INDEX_LOST
             /\ h \notin hist.madeLost
             /\ hAllocations[h].m_Type = "BLOCK" => ReferencesTo(h) # {}

\* An evicting AllocateMemory has just made an allocation lost in a block that
\* also holds an allocation made without the flag.
C6_Witness ==
    /\ ret.op = "AllocateMemory"
    /\ ret.res = "VK_SUCCESS"
    /\ \E l \in hist.madeLost : \E h \in LiveBlockAllocations :
           /\ ~hAllocations[h].m_CanBecomeLost
           /\ hAllocations[h].m_Block = hAllocations[l].m_Block
           /\ ReferencesTo(h) # {}

\* C7: MakeLost(currentFrameIndex, frameInUseCount) on an allocation that can
\* become lost and was last used in frame F returns false and leaves the
\* last-use frame index alone when currentFrameIndex <= F + frameInUseCount,
\* and returns true and stores VMA_FRAME_INDEX_LOST when currentFrameIndex >
\* F + frameInUseCount, no other thread touching the allocation.
C7_MakeLostWindow ==
    ret.op = "MakeLost" =>
        IF m_CurrentFrameIndex <= ret.lastUseFrameIndex + m_FrameInUseCount
        THEN /\ ~ret.res
             /\ GetLastUseFrameIndex(hAllocations[1]) = ret.lastUseFrameIndex
        ELSE /\ ret.res
             /\ GetLastUseFrameIndex(hAllocations[1]) = VMA_FRAME_INDEX_LOST

\* C8: when a TouchAllocation of the allocation has returned true for frame
\* index F, then in every interleaving with allocating and sweeping threads
\* no evicting allocation and no lost sweep makes the allocation lost while
\* m_CurrentFrameIndex is at most F + m_FrameInUseCount.
C8_TouchedIsNotLostInWindow ==
    hist.touchedFrame # -1 /\ hist.lostAtFrame # -1 =>
        hist.lostAtFrame > hist.touchedFrame + m_FrameInUseCount

\* C9: with TouchAllocation and GetAllocationInfo running in several threads
\* on the same allocation while SetCurrentFrameIndex advances the frame, the
\* allocation is lost or its last-use frame index has never decreased: it is
\* the highest it has held.
C9_LastUseNeverDecreases ==
    GetLastUseFrameIndex(hAllocations[1]) # VMA_FRAME_INDEX_LOST =>
        GetLastUseFrameIndex(hAllocations[1]) = hist.highestLastUse

\* C10: once the last-use frame index of the allocation is
\* VMA_FRAME_INDEX_LOST it stays so through every step of TouchAllocation,
\* GetAllocationInfo, MakeLost and Defragment, those under way when it was
\* made lost among them; a TouchAllocation begun after that returns false and
\* a GetAllocationInfo begun after that reports deviceMemory VK_NULL_HANDLE
\* and offset 0.
C10_LostIsAbsorbing ==
    /\ hist.lostAtFrame # -1 =>
           GetLastUseFrameIndex(hAllocations[1]) = VMA_FRAME_INDEX_LOST
    /\ ret.op = "TouchAllocation" /\ ret.afterLoss => ~ret.touched
    /\ ret.op = "GetAllocationInfo" /\ ret.afterLoss =>
           /\ ret.pAllocationInfo.deviceMemory = VK_NULL_HANDLE
           /\ ret.pAllocationInfo.offset = 0

\* A TouchAllocation that began before the allocation was made lost has
\* returned false, another one that loaded a frame index before the loss is
\* still in its loop, and since the loss a call has begun and returned.
C10_Witness ==
    /\ hist.lostAtFrame # -1
    /\ ret.op = "TouchAllocation"
    /\ ~ret.afterLoss
    /\ ~ret.touched
    /\ \E t \in TouchThreads :
           /\ threads[t].pc = "loop"
           /\ ~threads[t].afterLoss
           /\ threads[t].localLastUseFrameIndex # VMA_FRAME_INDEX_LOST

\* The suballocations of block b that overlap the bytes of allocation h.
SuballocationsOver(b, h) ==
    {i \in 1..Len(m_Blocks[b].m_Metadata.m_Suballocations) :
        LET s == m_Blocks[b].m_Metadata.m_Suballocations[i]
        IN  /\ s.offset < hAllocations[h].m_Offset + hAllocations[h].m_Size
            /\ hAllocations[h].m_Offset < s.offset + s.size}

\* C11: an allocation an evicting AllocateMemory or a lost sweep has made lost
\* has no used suballocation when the call returns: no used suballocation
\* references a lost allocation, FREE suballocations are merged with their FREE
\* neighbours, and the bytes of the lost allocation are FREE after a sweep and
\* FREE or taken by the new, live allocation after an evicting AllocateMemory.
C11_LostIsFreed ==
    /\ \A h \in DOMAIN hAllocations :
          hAllocations[h].m_Type = "BLOCK"
          /\ hAllocations[h].m_LastUseFrameIndex = VMA_FRAME_INDEX_LOST
          => ReferencesTo(h) = {}
    /\ \A b \in 1..Len(m_Blocks) :
          \A i \in 1..(Len(m_Blocks[b].m_Metadata.m_Suballocations) - 1) :
              ~ /\ m_Blocks[b].m_Metadata.m_Suballocations[i].type
                       = VMA_SUBALLOCATION_TYPE_FREE
                /\ m_Blocks[b].m_Metadata.m_Suballocations[i + 1].type
                       = VMA_SUBALLOCATION_TYPE_FREE
    /\ \A l \in hist.madeLost :
          /\ ret.op \in {"AllocateMemory", "MakePoolAllocationsLost"}
          /\ \E b \in 1..Len(m_Blocks) : m_Blocks[b].id = hAllocations[l].m_Block
          /\ \A b \in 1..Len(m_Blocks) :
                m_Blocks[b].id = hAllocations[l].m_Block =>
                    \A i \in SuballocationsOver(b, l) :
                        LET s == m_Blocks[b].m_Metadata.m_Suballocations[i]
                        IN  \/ s.type = VMA_SUBALLOCATION_TYPE_FREE
                            \/ /\ ret.op = "AllocateMemory"
                               /\ ret.res = "VK_SUCCESS"
                               /\ s.hAllocation \in LiveBlockAllocations
                               /\ s.hAllocation \notin hist.madeLost

\* A lost sweep has made an allocation lost that had a FREE neighbour, and its
\* bytes are part of one larger FREE suballocation; another block holds an
\* allocation that is not lost.
C11_Witness ==
    /\ ret.op = "MakePoolAllocationsLost"
    /\ \E l \in hist.madeLost : \E b \in 1..Len(m_Blocks) :
           /\ m_Blocks[b].id = hAllocations[l].m_Block
           /\ \E i \in SuballocationsOver(b, l) :
                  /\ m_Blocks[b].m_Metadata.m_Suballocations[i].type
                         = VMA_SUBALLOCATION_TYPE_FREE
                  /\ m_Blocks[b].m_Metadata.m_Suballocations[i].size
                         > hAllocations[l].m_Size
    /\ LiveBlockAllocations # {}

\* No block of the pool offers createInfo a place without making allocations
\* lost: step 1 of VmaBlockVector::Allocate fails.
NoFitWithoutEviction(createInfo) ==
    \A i \in 1..Len(m_Blocks) :
        ~CreateAllocationRequest(m_Blocks[i].m_Metadata, hAllocations,
             m_CurrentFrameIndex, m_FrameInUseCount, m_BufferImageGranularity,
             createInfo.size, createInfo.alignment, createInfo.type, FALSE).ret

\* C12: an AllocateMemory from the pool makes an allocation lost only when its
\* request has VMA_ALLOCATION_CREATE_CAN_MAKE_OTHER_LOST_BIT, no block offered
\* a place without eviction, and a new block was not permitted
\* (VMA_ALLOCATION_CREATE_NEVER_ALLOCATE_BIT or m_MaxBlockCount blocks) or
\* vkAllocateMemory failed; and it creates a block only when no block offered
\* a place and a new block was permitted.
C12_OrderedStrategy ==
    [][ret'.op = "AllocateMemory"
       /\ (hist'.madeLost # {} \/ Len(m_Blocks') > Len(m_Blocks)) =>
           \A h \in DOMAIN CreateInfos : \A createInfo \in CreateInfos[h] :
           \A vkAllocateMemory \in VkAllocateMemoryResults :
           \A vkMapMemory \in VkMapMemoryResults :
               AllocateMemory(createInfo, h, vkAllocateMemory, vkMapMemory) =>
                   /\ createInfo.pool
                   /\ NoFitWithoutEviction(createInfo)
                   /\ hist'.madeLost # {} =>
                          /\ createInfo.canMakeOtherLost
                          /\ Len(m_Blocks') = Len(m_Blocks)
                          /\ \/ createInfo.neverAllocate
                             \/ Len(m_Blocks) >= m_MaxBlockCount
                             \/ vkAllocateMemory # "VK_SUCCESS"
                   /\ Len(m_Blocks') > Len(m_Blocks) =>
                          /\ ~createInfo.neverAllocate
                          /\ Len(m_Blocks) < m_MaxBlockCount
                          /\ vkAllocateMemory = "VK_SUCCESS"
                          /\ hist'.madeLost = {}]_vars

\* An AllocateMemory whose request has no
\* VMA_ALLOCATION_CREATE_NEVER_ALLOCATE_BIT has made an allocation lost while
\* the pool has fewer than m_MaxBlockCount blocks: vkAllocateMemory failed.
C12_Witness ==
    /\ ret.op = "AllocateMemory"
    /\ ret.res = "VK_SUCCESS"
    /\ hist.madeLost # {}
    /\ Len(m_Blocks) < m_MaxBlockCount
    /\ hAllocations[3].m_Type = "BLOCK"
    /\ hAllocations[3].m_SuballocationType = VMA_SUBALLOCATION_TYPE_BUFFER

\* The search of a round of step 3 finds a block to evict from.
EvictionCandidate ==
    BestRequestBlock(BlockVector, threads[LockThread].localCurrFrameIndex,
        m_FrameInUseCount, LockCreateInfo, 1,
        [block |-> 0, request |-> NoRequest, cost |-> VK_WHOLE_SIZE]).block # 0

C14_RetryExhaustionReported ==
    ret.op = "AllocateMemory" /\ ret.blockVectorRes = "VK_ERROR_TOO_MANY_OBJECTS" =>
        ret.res = "VK_ERROR_TOO_MANY_OBJECTS"

\* C15: an AllocateMemory whose request has
\* VMA_ALLOCATION_CREATE_DEDICATED_MEMORY_BIT with
\* VMA_ALLOCATION_CREATE_NEVER_ALLOCATE_BIT, VMA_ALLOCATION_CREATE_MAPPED_BIT
\* with VMA_ALLOCATION_CREATE_CAN_BECOME_LOST_BIT, or
\* VMA_ALLOCATION_CREATE_DEDICATED_MEMORY_BIT with a pool returns an error,
\* creates no allocation and no block, and leaves the blocks, their metadata
\* and map counts, and m_HasEmptyBlock as they were.
C15_ExclusiveFlagsRejected ==
    [][ret'.op = "AllocateMemory" =>
           \A h \in DOMAIN CreateInfos : \A createInfo \in CreateInfos[h] :
               (/\ \/ createInfo.dedicatedMemory /\ createInfo.neverAllocate
                   \/ createInfo.mapped /\ createInfo.canBecomeLost
                   \/ createInfo.pool /\ createInfo.dedicatedMemory
                /\ \E vkAllocateMemory \in VkAllocateMemoryResults :
                   \E vkMapMemory \in VkMapMemoryResults :
                       AllocateMemory(createInfo, h, vkAllocateMemory, vkMapMemory))
               => /\ ret'.res # "VK_SUCCESS"
                  /\ UNCHANGED <<m_Blocks, hAllocations, m_HasEmptyBlock>>
                  /\ hAllocations'[h].m_Type = "NONE"]_vars

\* An AllocateMemory has returned from one of the tests of the flags while
\* the pool holds a mapped block with an allocation.
C15_Witness ==
    /\ ret.op = "AllocateMemory"
    /\ ret.asserted
    /\ ret.res = "VK_ERROR_OUT_OF_DEVICE_MEMORY"
    /\ \E b \in 1..Len(m_Blocks) :
           /\ m_Blocks[b].m_MapCount > 0
           /\ UsedItems(m_Blocks[b].m_Metadata) # {}

\* C16: vmaMapMemory of an allocation made with
\* VMA_ALLOCATION_CREATE_CAN_BECOME_LOST_BIT, lost or not, returns an error,
\* leaves the map count of the allocation and of its block as they were and
\* does not call vkMapMemory.
C16_MapOfLostableFails ==
    [][\A h \in DOMAIN hAllocations :
           /\ threads.createInfo[h].canBecomeLost
           /\ ret'.op = "MapMemory"
           /\ \E vkMapMemory \in VkMapMemoryResults : MapMemory(h, vkMapMemory)
           => /\ ret'.res # "VK_SUCCESS"
              /\ ~ret'.vkMapMemory
              /\ UNCHANGED <<m_Blocks, hAllocations>>]_vars

\* C17: for each block vkMapMemory is called only when m_MapCount is 0 and
\* vkUnmapMemory only when m_MapCount returns to 0, so the calls alternate,
\* the first being vkMapMemory, and the memory is mapped exactly while
\* m_MapCount is positive; vmaMapMemory of any allocation of a block that is
\* mapped succeeds and only counts.
C17_DeviceMapAlternates ==
    /\ [](\A b \in DOMAIN m_Blocks :
              /\ m_Blocks[b].vkMapState \in {"unmapped", "mapped"}
              /\ m_Blocks[b].vkMapState = "mapped" <=> m_Blocks[b].m_MapCount > 0)
    /\ [][ret'.op = "MapMemory" =>
              \A b \in {BlockIndex(m_Blocks, hAllocations[ret'.allocation].m_Block)} :
                  /\ hAllocations[ret'.allocation].m_Type = "BLOCK"
                  /\ ~CanBecomeLost(hAllocations[ret'.allocation])
                  /\ m_Blocks[b].m_MapCount > 0
                  => /\ ret'.res = "VK_SUCCESS"
                     /\ m_Blocks' = [m_Blocks EXCEPT ![b].m_MapCount = @ + 1]
                     /\ MapRefCount(hAllocations'[ret'.allocation])
                            = MapRefCount(hAllocations[ret'.allocation]) + 1]_vars

\* A block mapped for a persistently mapped allocation and by vmaMapMemory of
\* two of its allocations, the last call having found it mapped.
C17_Witness ==
    /\ ret.op = "MapMemory"
    /\ ret.res = "VK_SUCCESS"
    /\ ~ret.vkMapMemory
    /\ \E b \in DOMAIN m_Blocks :
           /\ m_Blocks[b].m_MapCount >= 3
           /\ \E h1, h2 \in LiveHandles :
                  /\ h1 # h2
                  /\ hAllocations[h1].m_Type = "BLOCK"
                  /\ hAllocations[h2].m_Type = "BLOCK"
                  /\ hAllocations[h1].m_Block = m_Blocks[b].id
                  /\ hAllocations[h2].m_Block = m_Blocks[b].id
                  /\ IsPersistentMap(hAllocations[h1])
                  /\ MapRefCount(hAllocations[h1]) > 0
                  /\ MapRefCount(hAllocations[h2]) > 0

\* C18: while the vector has more blocks than m_MinBlockCount, at most one of
\* them is empty after any Allocate, Free, MakePoolAllocationsLost and
\* Defragment: a block that becomes empty beside an empty one is destroyed.
C18_AtMostOneEmptyBlock ==
    Len(m_Blocks) > m_MinBlockCount =>
        Cardinality({b \in DOMAIN m_Blocks : IsEmpty(m_Blocks[b].m_Metadata)}) <= 1

C20_AllocationInsideBlock ==
    \A b \in DOMAIN m_Blocks :
        /\ ValidateSuballocations(m_Blocks[b].m_Metadata)
        /\ \A i \in UsedItems(m_Blocks[b].m_Metadata) :
           \A s \in {m_Blocks[b].m_Metadata.m_Suballocations[i]} :
               /\ s.offset = hAllocations[s.hAllocation].m_Offset
               /\ s.size = hAllocations[s.hAllocation].m_Size
               /\ s.offset % hAllocations[s.hAllocation].m_Alignment = 0
               /\ s.offset + s.size <= m_Blocks[b].m_Metadata.m_Size

\* The pages of bufferImageGranularity bytes that a suballocation has bytes on.
PagesOf(s, bufferImageGranularity) ==
    {x \div bufferImageGranularity : x \in s.offset..(s.offset + s.size - 1)}

\* C21: with a buffer-image granularity above 1, no two used suballocations of
\* a block whose types conflict (VmaIsBufferImageGranularityConflict) have
\* bytes on the same page of that many bytes, after any allocation, free and
\* eviction.
C21_NoConflictOnSamePage ==
    \A b \in DOMAIN m_Blocks :
    \A i, j \in UsedItems(m_Blocks[b].m_Metadata) :
        /\ i < j
        /\ VmaIsBufferImageGranularityConflict(
               m_Blocks[b].m_Metadata.m_Suballocations[i].type,
               m_Blocks[b].m_Metadata.m_Suballocations[j].type)
        => PagesOf(m_Blocks[b].m_Metadata.m_Suballocations[i], MetaGranularity)
               \cap PagesOf(m_Blocks[b].m_Metadata.m_Suballocations[j], MetaGranularity)
           = {}

\* Nothing was freed or lost: an optimal image asked at alignment 16 stands at
\* the start of the second page, behind a buffer and the free bytes that
\* aligning the offset up to the granularity left on the first page.
C21_Witness ==
    /\ ret.op = "Alloc"
    /\ \A h \in DOMAIN hAllocations :
           /\ hAllocations[h].m_Type # "DELETED"
           /\ hAllocations[h].m_LastUseFrameIndex # VMA_FRAME_INDEX_LOST
    /\ \E i \in 1..(Len(Meta.m_Suballocations) - 2) :
           /\ Meta.m_Suballocations[i].type = VMA_SUBALLOCATION_TYPE_BUFFER
           /\ Meta.m_Suballocations[i + 1].type = VMA_SUBALLOCATION_TYPE_FREE
           /\ Meta.m_Suballocations[i + 1].size >= 16
           /\ Meta.m_Suballocations[i + 2].type = VMA_SUBALLOCATION_TYPE_IMAGE_OPTIMAL
           /\ Meta.m_Suballocations[i + 2].offset = MetaGranularity

\* The positions of the free regions listed in m_FreeSuballocationsBySize that
\* pass CheckAllocation without eviction for a request.
PassingIndexed(meta, r) ==
    {i \in {ItemIndex(meta, meta.m_FreeSuballocationsBySize[k]) :
                k \in 1..Len(meta.m_FreeSuballocationsBySize)} :
        CheckAllocationFree(meta, MetaGranularity, r.size, r.alignment, r.type, i).ret}

\* C22: without eviction, whenever CreateAllocationRequest succeeds the region
\* it chose is free, passes the size, alignment and granularity checks of
\* CheckAllocation, and no region listed in m_FreeSuballocationsBySize that is
\* strictly smaller passes them.
C22_TightestFit ==
    \A r \in MetaRequests :
        LET cr == CreateAllocationRequest(Meta, hAllocations, m_CurrentFrameIndex,
                      m_FrameInUseCount, MetaGranularity, r.size, r.alignment, r.type,
                      FALSE)
            Chosen(item) ==
                /\ item \in FreeItems(Meta)
                /\ item \in PassingIndexed(Meta, r)
                /\ \A i \in PassingIndexed(Meta, r) :
                       Meta.m_Suballocations[i].size >= Meta.m_Suballocations[item].size
        IN  cr.ret => Chosen(cr.request.item)

\* Witness for C22: a block with a free region of 24 bytes before a free
\* region of 32 bytes had 16 bytes asked of it, and Alloc has placed them in
\* the region of 24 bytes.
C22_Witness ==
    /\ ret.op = "Alloc"
    /\ Len(Meta.m_Suballocations) = 4
    /\ Meta.m_Suballocations[1].type # VMA_SUBALLOCATION_TYPE_FREE
    /\ Meta.m_Suballocations[1].size = 16
    /\ Meta.m_Suballocations[2].type = VMA_SUBALLOCATION_TYPE_FREE
    /\ Meta.m_Suballocations[2].size = 8
    /\ Meta.m_Suballocations[3].type # VMA_SUBALLOCATION_TYPE_FREE
    /\ Meta.m_Suballocations[3].offset = 24
    /\ Meta.m_Suballocations[4].type = VMA_SUBALLOCATION_TYPE_FREE
    /\ Meta.m_Suballocations[4].size = 32
    /\ \E h \in DOMAIN hAllocations : hAllocations[h].m_Type = "DELETED"

\* C23: every move a Defragment call has made went to a block that stands
\* before the source block in the defragmentator's m_Blocks, or to a lower
\* offset of the same block.
C23_MovesForward ==
    ret.op = "Defragment" =>
        \A k \in 1..Len(ret.moves) :
            \/ ret.moves[k].dstBlockIndex < ret.moves[k].srcBlockIndex
            \/ /\ ret.moves[k].dstBlockIndex = ret.moves[k].srcBlockIndex
               /\ ret.moves[k].dstOffset < ret.moves[k].srcOffset

\* Witness for C23: a call that has moved one allocation to a lower offset of
\* its block.
C23_Witness ==
    /\ ret.op = "Defragment"
    /\ \E k \in 1..Len(ret.moves) :
           /\ ret.moves[k].dstBlockIndex = ret.moves[k].srcBlockIndex
           /\ ret.moves[k].dstOffset < ret.moves[k].srcOffset

C23_WitnessOtherBlock ==
    /\ ret.op = "Defragment"
    /\ \E k \in 1..Len(ret.moves) : ret.moves[k].dstBlockIndex < ret.moves[k].srcBlockIndex

(***************************************************************************)
(* SpecDefrag: vmaDefragment with its arrays and optional arguments over   *)
(* the custom pools of m_Pools.  A pool is [m_Blocks, m_HasEmptyBlock,     *)
(* m_Mutex, hostVisible, pData]: its block vector with the thread that     *)
(* holds the vector's mutex, whether its memory type has                   *)
(* VK_MEMORY_PROPERTY_HOST_VISIBLE_BIT, and the bytes of the VkDeviceMemory *)
(* of each block, by the block's address.  The pool of the other           *)
(* specifications is not created.  Every call runs from start to end.      *)
(***************************************************************************)
\* The requests, as in CreateInfos, with hPool the position of
\* VmaAllocationCreateInfo::pool in m_Pools.
DefragCreateInfos ==
    LET Info(hPool, size, flags) ==
            [size |-> size, alignment |-> 1, type |-> VMA_SUBALLOCATION_TYPE_BUFFER,
             hPool |-> hPool, pool |-> hPool # VK_NULL_HANDLE,
             dedicatedMemory |-> "DEDICATED_MEMORY" \in flags,
             neverAllocate |-> FALSE, mapped |-> FALSE,
             canBecomeLost |-> "CAN_BECOME_LOST" \in flags,
             canMakeOtherLost |-> FALSE]
    IN  << {Info(1, 16, {})},
           {Info(1, 16, {})},
           {Info(2, 16, {})},
           {Info(2, 16, {})},
           {Info(VK_NULL_HANDLE, 16, {"DEDICATED_MEMORY"})},
           {Info(1, 16, {"CAN_BECOME_LOST"})} >>

\* VmaAllocation_T::GetPool: the pool a handle's requests name.
GetPool(hAllocation) ==
    (CHOOSE createInfo \in DefragCreateInfos[hAllocation] : TRUE).hPool

\* The state a call on the block vector of pool hPool works on.
PoolVector(pools, allocs, hPool) ==
    [m_Blocks |-> pools[hPool].m_Blocks, m_HasEmptyBlock |-> pools[hPool].m_HasEmptyBlock,
     allocs |-> allocs]

BlockBytes == 0..(m_PreferredBlockSize - 1)

\* The bytes of memory that nothing was written to; a byte is <<h, k>> when
\* it was written as byte k of allocation h.
FreshMemory == [byte \in BlockBytes |-> <<VK_NULL_HANDLE, 0>>]

\* vkAllocateMemory and vkFreeMemory: a block that is not in the vector has
\* no memory, and a new one has memory nothing was written to.
DeviceMemory(pools) ==
    [hPool \in DOMAIN pools |->
        [pools[hPool] EXCEPT !.pData =
            [id \in DOMAIN @ |->
                IF BlockIndex(pools[hPool].m_Blocks, id) # 0 THEN @[id]
                ELSE FreshMemory]]]

\* The pools after a call on the vector of pool hPool has left it as bv.
WithVector(pools, hPool, bv) ==
    DeviceMemory([pools EXCEPT ![hPool].m_Blocks = bv.m_Blocks,
                               ![hPool].m_HasEmptyBlock = bv.m_HasEmptyBlock])

\* No byte is copied.
Memcpy_Nothing(pData, dstBlock, dstOffset, srcBlock, srcOffset, size) == pData

\* memcpy from the mapped memory of srcBlock to that of dstBlock.
Memcpy(pData, dstBlock, dstOffset, srcBlock, srcOffset, size) ==
    [pData EXCEPT ![dstBlock] =
        [byte \in BlockBytes |->
            IF dstOffset <= byte /\ byte < dstOffset + size
            THEN pData[srcBlock][srcOffset + (byte - dstOffset)]
            ELSE @[byte]]]

\* The copies of the moves from the k-th on.
RECURSIVE CopyMoves(_, _, _)
CopyMoves(pData, moves, k) ==
    IF k > Len(moves) THEN pData
    ELSE CopyMoves(Memcpy(pData, moves[k].dstBlock, moves[k].dstOffset,
                       moves[k].srcBlock, moves[k].srcOffset, moves[k].size),
             moves, k + 1)

\* Every allocation passed in is handed to a defragmentator.
CanBeDefragmented_Always(pools, allocs, hAlloc) ==
    allocs[hAlloc].m_Type = "BLOCK"

\* The test of the dispatch loop of VmaAllocator_T::Defragment.
CanBeDefragmented(pools, allocs, hAlloc) ==
    /\ allocs[hAlloc].m_Type = "BLOCK"
    /\ pools[GetPool(hAlloc)].hostVisible
    /\ GetLastUseFrameIndex(allocs[hAlloc]) # VMA_FRAME_INDEX_LOST

\* VmaBlockVector::Defragment of pool hPool, whose defragmentator was given
\* the allocations added.  s is what VmaAllocator_T::Defragment holds between
\* the vectors: [pools, allocs, result, maxBytesToMove, maxAllocationsToMove,
\* stats, moves], the limits being the references handed to each vector.
\* pDefragmentationStats tells whether the statistics are asked for.  Returns
\* what the call can leave: VMA_SORT orders equivalent blocks in any order.
DefragmentPool(s, hPool, added, pDefragmentationStats) ==
    LET Accumulated(r) ==
            [pools |-> [s.pools EXCEPT ![hPool].m_Blocks = r.bv.m_Blocks,
                                       ![hPool].m_HasEmptyBlock = r.bv.m_HasEmptyBlock,
                                       ![hPool].pData = CopyMoves(@, r.moves, 1)],
             allocs |-> r.bv.allocs,
             result |-> r.res,
             maxBytesToMove |-> IF pDefragmentationStats
                                THEN s.maxBytesToMove - r.bytesMoved
                                ELSE s.maxBytesToMove,
             maxAllocationsToMove |-> IF pDefragmentationStats
                                      THEN s.maxAllocationsToMove - r.allocationsMoved
                                      ELSE s.maxAllocationsToMove,
             stats |-> IF pDefragmentationStats
                       THEN [bytesMoved |-> s.stats.bytesMoved + r.bytesMoved,
                             allocationsMoved |->
                                 s.stats.allocationsMoved + r.allocationsMoved]
                       ELSE s.stats,
             moves |-> s.moves \o r.moves]
    IN  IF added = {} THEN {s}
        ELSE {Accumulated(VmaBlockVector_Defragment(
                  PoolVector(s.pools, s.allocs, hPool), infos, m_CurrentFrameIndex,
                  m_FrameInUseCount, s.maxBytesToMove, s.maxAllocationsToMove,
                  [b \in 1..m_MaxBlockCount |-> "VK_SUCCESS"])) :
                 infos \in SortedBlockInfos(PoolVector(s.pools, s.allocs, hPool), added)}

\* The loop over the custom pools of VmaAllocator_T::Defragment from poolIndex
\* on; added[hPool] are the allocations dispatched to the pool.
RECURSIVE DefragmentPools(_, _, _, _)
DefragmentPools(s, poolIndex, added, pDefragmentationStats) ==
    IF poolIndex > Len(s.pools) \/ s.result # "VK_SUCCESS" THEN {s}
    ELSE UNION {DefragmentPools(t, poolIndex + 1, added, pDefragmentationStats) :
                   t \in DefragmentPool(s, poolIndex, added[poolIndex],
                             pDefragmentationStats)}

\* memset(pAllocationsChanged, 0, sizeof(*pAllocationsChanged)): the size is
\* that of one VkBool32.
ClearedFlags(pAllocationsChanged) ==
    [i \in DOMAIN pAllocationsChanged |-> IF i = 1 THEN FALSE ELSE pAllocationsChanged[i]]

\* memset over the whole array.
ClearedFlags_All(pAllocationsChanged) ==
    [i \in DOMAIN pAllocationsChanged |-> FALSE]

\* pAllocationsChanged after the call: *allocInfo.m_pChanged = VK_TRUE for
\* each move.  A null array is the empty sequence.
ChangedFlags(pAllocations, pAllocationsChanged, moves) ==
    [i \in DOMAIN pAllocationsChanged |->
        IF \E k \in 1..Len(moves) : moves[k].hAllocation = pAllocations[i]
        THEN TRUE
        ELSE ClearedFlags(pAllocationsChanged)[i]]

\* vmaDefragment of the array pAllocations of allocations the caller holds.
vmaDefragment(pAllocations, pAllocationsChanged, pDefragmentationInfo, pDefragmentationStats) ==
    /\ UNCHANGED <<m_Blocks, m_CurrentFrameIndex, m_FrameInUseCount, m_MinBlockCount, m_HeapSizeLimit,
                   m_HasEmptyBlock, threads>>
    /\ hist' = [madeLost |-> {}]
    /\ \E s \in DefragmentPools(
                    [pools |-> m_Pools, allocs |-> hAllocations, result |-> "VK_SUCCESS",
                     maxBytesToMove |-> pDefragmentationInfo.maxBytesToMove,
                     maxAllocationsToMove |-> pDefragmentationInfo.maxAllocationsToMove,
                     stats |-> [bytesMoved |-> 0, allocationsMoved |-> 0],
                     moves |-> << >>],
                    1,
                    [hPool \in DOMAIN m_Pools |->
                        {pAllocations[i] : i \in DOMAIN pAllocations}
                            \cap {h \in DOMAIN hAllocations :
                                     /\ CanBeDefragmented(m_Pools, hAllocations, h)
                                     /\ GetPool(h) = hPool}],
                    pDefragmentationStats) :
           /\ m_Pools' = DeviceMemory(s.pools)
           /\ hAllocations' = s.allocs
           /\ ret' = [op |-> "Defragment", res |-> s.result,
                      pAllocations |-> pAllocations,
                      pAllocationsChanged |->
                          ChangedFlags(pAllocations, pAllocationsChanged, s.moves),
                      maxBytesToMove |-> pDefragmentationInfo.maxBytesToMove,
                      maxAllocationsToMove |-> pDefragmentationInfo.maxAllocationsToMove,
                      pDefragmentationStats |->
                          [given |-> pDefragmentationStats,
                           bytesMoved |-> s.stats.bytesMoved,
                           allocationsMoved |-> s.stats.allocationsMoved],
                      moves |-> s.moves]

\* vmaAllocateMemory with a device that has memory.
DefragAllocateMemory(createInfo, pAllocation) ==
    /\ hAllocations[pAllocation].m_Type = "NONE"
    /\ createInfo.hPool \in DOMAIN m_Pools \cup {VK_NULL_HANDLE}
    /\ UNCHANGED <<m_Blocks, m_CurrentFrameIndex, m_FrameInUseCount, m_MinBlockCount, m_HeapSizeLimit,
                   m_HasEmptyBlock, threads>>
    /\ hist' = [madeLost |-> {}]
    /\ IF createInfo.pool
       THEN \E r \in {VmaBlockVector_Allocate(
                          PoolVector(m_Pools, hAllocations, createInfo.hPool),
                          m_CurrentFrameIndex, m_FrameInUseCount, createInfo,
                          pAllocation, "VK_SUCCESS", "VK_SUCCESS")} :
                /\ m_Pools' = WithVector(m_Pools, createInfo.hPool, r.bv)
                /\ hAllocations' = r.bv.allocs
                /\ ret' = [op |-> "AllocateMemory", res |-> r.res]
       ELSE \E r \in {AllocateDedicatedMemory(m_CurrentFrameIndex, createInfo,
                          m_MaxBlockCount + pAllocation, "VK_SUCCESS", "VK_SUCCESS")} :
                /\ hAllocations' = [hAllocations EXCEPT ![pAllocation] = r.alloc]
                /\ ret' = [op |-> "AllocateMemory", res |-> r.res]
                /\ UNCHANGED m_Pools

\* Every allocation is handed to its block vector or to FreeDedicatedMemory.
IsFreedFromMemory_Always(alloc) == TRUE

\* The test at the head of VmaAllocator_T::FreeMemory.
IsFreedFromMemory(alloc) ==
    \/ ~CanBecomeLost(alloc)
    \/ GetLastUseFrameIndex(alloc) # VMA_FRAME_INDEX_LOST

\* vmaFreeMemory.  ret tells which allocation was freed, whether it was lost,
\* and the block and offset it had.
DefragFreeMemory(allocation) ==
    /\ allocation \in LiveHandles
    /\ UNCHANGED <<m_Blocks, m_CurrentFrameIndex, m_FrameInUseCount, m_MinBlockCount, m_HeapSizeLimit,
                   m_HasEmptyBlock, threads>>
    /\ ret' = [op |-> "FreeMemory", res |-> "VK_SUCCESS", allocation |-> allocation,
               lost |-> GetLastUseFrameIndex(hAllocations[allocation])
                           = VMA_FRAME_INDEX_LOST,
               block |-> hAllocations[allocation].m_Block,
               offset |-> hAllocations[allocation].m_Offset]
    /\ hist' = [madeLost |-> {}]
    /\ IF /\ IsFreedFromMemory(hAllocations[allocation])
          /\ hAllocations[allocation].m_Type = "BLOCK"
       THEN \E bv \in {VmaBlockVector_Free(
                           PoolVector(m_Pools, hAllocations, GetPool(allocation)),
                           allocation)} :
                /\ m_Pools' = WithVector(m_Pools, GetPool(allocation), bv)
                /\ hAllocations' = [bv.allocs EXCEPT ![allocation] = NoAllocation]
       ELSE /\ hAllocations' = [hAllocations EXCEPT ![allocation] = NoAllocation]
            /\ UNCHANGED m_Pools

\* vmaMakePoolAllocationsLost.
DefragMakePoolAllocationsLost(pool) ==
    /\ \E r \in {VmaBlockVector_MakePoolAllocationsLost(
                     PoolVector(m_Pools, hAllocations, pool), m_CurrentFrameIndex,
                     m_FrameInUseCount)} :
           /\ m_Pools' = WithVector(m_Pools, pool, r.bv)
           /\ hAllocations' = r.bv.allocs
           /\ ret' = [op |-> "MakePoolAllocationsLost", res |-> r.lostAllocationCount]
           /\ hist' = [madeLost |-> MadeLost(hAllocations, r.bv.allocs)]
    /\ UNCHANGED <<m_Blocks, m_CurrentFrameIndex, m_FrameInUseCount, m_MinBlockCount, m_HeapSizeLimit,
                   m_HasEmptyBlock, threads>>

\* The application writes its bytes to a block allocation it holds, through
\* the pointer vmaMapMemory gave it: byte k of allocation h gets <<h, k>>.
WriteMemory(allocation) ==
    /\ allocation \in LiveHandles
    /\ hAllocations[allocation].m_Type = "BLOCK"
    /\ GetLastUseFrameIndex(hAllocations[allocation]) # VMA_FRAME_INDEX_LOST
    /\ m_Pools' = [m_Pools EXCEPT
           ![GetPool(allocation)].pData[hAllocations[allocation].m_Block] =
               [byte \in BlockBytes |->
                   IF /\ hAllocations[allocation].m_Offset <= byte
                      /\ byte < hAllocations[allocation].m_Offset
                                   + hAllocations[allocation].m_Size
                   THEN <<allocation, byte - hAllocations[allocation].m_Offset>>
                   ELSE @[byte]]]
    /\ ret' = [op |-> "WriteMemory", res |-> "VK_SUCCESS"]
    /\ UNCHANGED <<m_Blocks, hAllocations, m_CurrentFrameIndex, m_FrameInUseCount,
                   m_MinBlockCount, m_HeapSizeLimit, m_HasEmptyBlock, threads, hist>>

\* The pools vmaCreatePool has made: hostVisible[hPool] tells the memory type
\* of each.
CreatePools(hostVisible) ==
    [hPool \in DOMAIN hostVisible |->
        [m_Blocks |-> << >>, m_HasEmptyBlock |-> FALSE, m_Mutex |-> NoThread,
         hostVisible |-> hostVisible[hPool],
         pData |-> [id \in 1..m_MaxBlockCount |-> FreshMemory]]]

\* The state after vmaCreateAllocator and a vmaCreatePool for each element of
\* hostVisible.
DefragInitWith(hostVisible) ==
    /\ m_Blocks = << >>
    /\ m_Pools = CreatePools(hostVisible)
    /\ hAllocations = [h \in DOMAIN DefragCreateInfos |-> NoAllocation]
    /\ m_CurrentFrameIndex = 0
    /\ m_FrameInUseCount = 0
    /\ m_MinBlockCount = 0
    /\ m_HeapSizeLimit = VK_WHOLE_SIZE
    /\ m_HasEmptyBlock = FALSE
    /\ ret = [op |-> "Init", res |-> "VK_SUCCESS"]
    /\ threads = NoThreads
    /\ hist = [madeLost |-> {}]

\* The arrays a caller may pass: all it holds, in the order of the handles,
\* or one allocation.
AllocationArrays ==
    {[i \in 1..Cardinality(LiveHandles) |->
         CHOOSE h \in LiveHandles : Cardinality({g \in LiveHandles : g < h}) = i - 1]}
        \cup {<<h>> : h \in LiveHandles}

\* The optional arguments of vmaDefragment: what pAllocationsChanged holds
\* before the call ("NULL" without the array), the limits, and whether
\* pDefragmentationStats is given.
DefragmentArguments ==
    LET Unlimited == [maxBytesToMove |-> SIZE_MAX, maxAllocationsToMove |-> UINT32_MAX]
        OneAllocation == [maxBytesToMove |-> SIZE_MAX, maxAllocationsToMove |-> 1]
        SomeBytes == [maxBytesToMove |-> 16, maxAllocationsToMove |-> UINT32_MAX]
        Arguments(flags, info, stats) ==
            [pAllocationsChanged |-> flags, pDefragmentationInfo |-> info,
             pDefragmentationStats |-> stats]
    IN  { Arguments("NULL", Unlimited, FALSE),
          Arguments("VK_TRUE", Unlimited, TRUE),
          Arguments("VK_FALSE", OneAllocation, FALSE),
          Arguments("NULL", OneAllocation, TRUE),
          Arguments("NULL", SomeBytes, FALSE),
          Arguments("VK_FALSE", SomeBytes, TRUE) }

FlagsArray(allocationCount, flags) ==
    IF flags = "NULL" THEN << >>
    ELSE [i \in 1..allocationCount |-> flags = "VK_TRUE"]

\* Two pools of host-visible memory, two allocations in each, and every
\* combination of DefragmentArguments.
DefragInit == DefragInitWith(<<TRUE, TRUE>>)

DefragNext ==
    \/ \E pAllocation \in 1..4 :
       \E createInfo \in DefragCreateInfos[pAllocation] :
           DefragAllocateMemory(createInfo, pAllocation)
    \/ \E allocation \in DOMAIN hAllocations : DefragFreeMemory(allocation)
    \/ \E pAllocations \in AllocationArrays :
       \E arguments \in DefragmentArguments :
           /\ Len(pAllocations) > 0
           /\ vmaDefragment(pAllocations,
                  FlagsArray(Len(pAllocations), arguments.pAllocationsChanged),
                  arguments.pDefragmentationInfo, arguments.pDefragmentationStats)

SpecDefrag == DefragInit /\ [][DefragNext]_vars

(***************************************************************************)
(* SpecKinds: vmaDefragment of allocations of every kind: in a pool of     *)
(* host-visible memory, in a pool of memory that is not host-visible,      *)
(* dedicated, and lost.  No limits and no optional array.                  *)
(***************************************************************************)
KindsInit == DefragInitWith(<<TRUE, FALSE>>)

KindsNext ==
    \/ \E pAllocation \in {1, 3, 4, 5, 6} :
       \E createInfo \in DefragCreateInfos[pAllocation] :
           DefragAllocateMemory(createInfo, pAllocation)
    \/ \E allocation \in DOMAIN hAllocations : DefragFreeMemory(allocation)
    \/ \E frameIndex \in {m_CurrentFrameIndex + 1} \cap 0..MaxFrame :
           SetCurrentFrameIndex(frameIndex)
    \/ \E pool \in DOMAIN m_Pools : DefragMakePoolAllocationsLost(pool)
    \/ \E pAllocations \in AllocationArrays :
           /\ Len(pAllocations) > 0
           /\ vmaDefragment(pAllocations, << >>,
                  [maxBytesToMove |-> SIZE_MAX, maxAllocationsToMove |-> UINT32_MAX],
                  FALSE)

SpecKinds == KindsInit /\ [][KindsNext]_vars

(***************************************************************************)
(* SpecCopy: one pool whose allocations the application writes to, to look *)
(* at the bytes vmaDefragment copies.                                      *)
(***************************************************************************)
CopyInit == DefragInitWith(<<TRUE>>)

CopyNext ==
    \/ \E pAllocation \in {1, 2, 6} :
       \E createInfo \in DefragCreateInfos[pAllocation] :
           DefragAllocateMemory(createInfo, pAllocation)
    \/ \E allocation \in DOMAIN hAllocations : DefragFreeMemory(allocation)
    \/ \E allocation \in DOMAIN hAllocations : WriteMemory(allocation)
    \/ \E pAllocations \in AllocationArrays :
           /\ Len(pAllocations) > 0
           /\ vmaDefragment(pAllocations, << >>,
                  [maxBytesToMove |-> SIZE_MAX, maxAllocationsToMove |-> UINT32_MAX],
                  FALSE)

SpecCopy == CopyInit /\ [][CopyNext]_vars

\* The bytes of the moves from the k-th on.
RECURSIVE BytesOfMoves(_, _)
BytesOfMoves(moves, k) ==
    IF k > Len(moves) THEN 0 ELSE moves[k].size + BytesOfMoves(moves, k + 1)

\* C24: the bytes copied and the allocations moved by a vmaDefragment call,
\* over all the block vectors it has processed, are within maxBytesToMove and
\* maxAllocationsToMove, whatever optional arguments the call was given.
C24_LimitsRespected ==
    ret.op = "Defragment" =>
        /\ Len(ret.moves) <= ret.maxAllocationsToMove
        /\ BytesOfMoves(ret.moves, 1) <= ret.maxBytesToMove

\* The limits hold for the calls that pass pDefragmentationStats.
C24_LimitsRespectedWithStats ==
    ret.op = "Defragment" /\ ret.pDefragmentationStats.given =>
        /\ Len(ret.moves) <= ret.maxAllocationsToMove
        /\ BytesOfMoves(ret.moves, 1) <= ret.maxBytesToMove
        /\ ret.pDefragmentationStats.allocationsMoved = Len(ret.moves)
        /\ ret.pDefragmentationStats.bytesMoved = BytesOfMoves(ret.moves, 1)

\* Whether the allocations differ in block or offset.
PlacedElsewhere(before, after) ==
    before.m_Block # after.m_Block \/ before.m_Offset # after.m_Offset

\* Whether a block of the vector of pool hPool holds a suballocation of the
\* allocation's size at its offset that names hAllocation.
InBlockVector(pools, hPool, alloc, hAllocation) ==
    \E b \in 1..Len(pools[hPool].m_Blocks) :
        /\ pools[hPool].m_Blocks[b].id = alloc.m_Block
        /\ \E i \in 1..Len(pools[hPool].m_Blocks[b].m_Metadata.m_Suballocations) :
               pools[hPool].m_Blocks[b].m_Metadata.m_Suballocations[i]
                  = [offset |-> alloc.m_Offset, size |-> alloc.m_Size,
                     hAllocation |-> hAllocation, type |-> alloc.m_SuballocationType]

\* C25: a vmaDefragment call places elsewhere only allocations that are in
\* its array pAllocations, are block allocations, are in a pool of
\* host-visible memory and were not lost; every other allocation keeps block
\* and offset; every allocation keeps its size, and one that was moved stands
\* in a block of the vector of its own pool.
C25_OnlyPassedMovableMove ==
    [][ret'.op = "Defragment" =>
          \A h \in DOMAIN hAllocations :
              /\ hAllocations'[h].m_Size = hAllocations[h].m_Size
              /\ hAllocations'[h].m_Type = hAllocations[h].m_Type
              /\ PlacedElsewhere(hAllocations[h], hAllocations'[h])
                    <=> \E k \in 1..Len(ret'.moves) : ret'.moves[k].hAllocation = h
              /\ PlacedElsewhere(hAllocations[h], hAllocations'[h]) =>
                    /\ \E i \in 1..Len(ret'.pAllocations) : ret'.pAllocations[i] = h
                    /\ hAllocations[h].m_Type = "BLOCK"
                    /\ m_Pools[GetPool(h)].hostVisible
                    /\ GetLastUseFrameIndex(hAllocations[h]) # VMA_FRAME_INDEX_LOST
                    /\ InBlockVector(m_Pools', GetPool(h), hAllocations'[h], h)]_vars

\* Witness for C25: a call was given a dedicated allocation, a lost one and
\* one that stands behind free bytes in a pool whose memory is not
\* host-visible, has left all three where they were, and has moved another.
C25_Witness ==
    /\ ret.op = "Defragment"
    /\ Len(ret.moves) > 0
    /\ \E d, l, n \in {ret.pAllocations[i] : i \in 1..Len(ret.pAllocations)} :
           /\ hAllocations[d].m_Type = "DEDICATED"
           /\ hAllocations[l].m_Type = "BLOCK"
           /\ GetLastUseFrameIndex(hAllocations[l]) = VMA_FRAME_INDEX_LOST
           /\ hAllocations[n].m_Type = "BLOCK"
           /\ ~m_Pools[GetPool(n)].hostVisible
           /\ hAllocations[n].m_Offset = 16
           /\ IsFreeRange(m_Pools[GetPool(n)].m_Blocks[1].m_Metadata, 0, 16)
           /\ InBlockVector(m_Pools, GetPool(n), hAllocations[n], n)

\* C26: after a vmaDefragment call that was given the array
\* pAllocationsChanged, the flag at each index is true if and only if the
\* allocation at that index of pAllocations was moved by the call, whatever
\* the array held before.
C26_FlagsTellMoves ==
    ret.op = "Defragment" =>
        \A i \in 1..Len(ret.pAllocationsChanged) :
            ret.pAllocationsChanged[i]
               <=> \E k \in 1..Len(ret.moves) :
                       ret.moves[k].hAllocation = ret.pAllocations[i]

\* The flag of the first allocation of the array does tell whether it was
\* moved, and the flag of every allocation that was moved is true.
C26_FirstFlagAndMovedFlags ==
    ret.op = "Defragment" =>
        \A i \in 1..Len(ret.pAllocationsChanged) :
            /\ i = 1 => (ret.pAllocationsChanged[i]
                            <=> \E k \in 1..Len(ret.moves) :
                                    ret.moves[k].hAllocation = ret.pAllocations[i])
            /\ (\E k \in 1..Len(ret.moves) :
                    ret.moves[k].hAllocation = ret.pAllocations[i])
                  => ret.pAllocationsChanged[i]

\* The bytes of a block allocation in the memory of its block.
BytesOf(pools, hPool, alloc) ==
    [k \in 0..(alloc.m_Size - 1) |-> pools[hPool].pData[alloc.m_Block][alloc.m_Offset + k]]

\* C27: over a vmaDefragment call every block allocation has the same bytes
\* after the call, at the block and offset it has then, as it had before the
\* call, whether it was moved or not, and every move copied into a range that
\* was free.
C27_MovePreservesData ==
    [][ret'.op = "Defragment" =>
          /\ \A h \in DOMAIN hAllocations :
                 hAllocations[h].m_Type = "BLOCK" =>
                     BytesOf(m_Pools', GetPool(h), hAllocations'[h])
                        = BytesOf(m_Pools, GetPool(h), hAllocations[h])
          /\ \A k \in 1..Len(ret'.moves) : ret'.moves[k].dstWasFree]_vars

\* Witness for C27: a call has moved an allocation the application had
\* written to into another block, where its bytes are now, and has left
\* alone another allocation that was written to.
C27_Witness ==
    /\ ret.op = "Defragment"
    /\ \E k \in 1..Len(ret.moves) :
           /\ ret.moves[k].srcBlock # ret.moves[k].dstBlock
           /\ BytesOf(m_Pools, GetPool(ret.moves[k].hAllocation),
                  hAllocations[ret.moves[k].hAllocation])
                 = [b \in 0..(ret.moves[k].size - 1) |-> <<ret.moves[k].hAllocation, b>>]
    /\ \E h \in DOMAIN hAllocations :
           /\ hAllocations[h].m_Type = "BLOCK"
           /\ \A k \in 1..Len(ret.moves) : ret.moves[k].hAllocation # h
           /\ BytesOf(m_Pools, GetPool(h), hAllocations[h])
                 = [b \in 0..(hAllocations[h].m_Size - 1) |-> <<h, b>>]

\* C28: a vmaFreeMemory of an allocation that is lost leaves every block
\* vector as it was, with the blocks, their metadata and their map counts,
\* and every other allocation as it was; the VmaAllocation_T alone is deleted.
C28_FreeOfLostTouchesNothing ==
    [][\A h \in DOMAIN hAllocations :
          /\ ret'.op = "FreeMemory"
          /\ hAllocations[h].m_Type = "BLOCK"
          /\ CanBecomeLost(hAllocations[h])
          /\ GetLastUseFrameIndex(hAllocations[h]) = VMA_FRAME_INDEX_LOST
          /\ hAllocations'[h].m_Type = "NONE"
          => /\ m_Pools' = m_Pools
             /\ m_Blocks' = m_Blocks
             /\ m_HasEmptyBlock' = m_HasEmptyBlock
             /\ \A g \in DOMAIN hAllocations \ {h} : hAllocations'[g] = hAllocations[g]]_vars

\* Witness for C28: a lost allocation was freed while another allocation
\* stands at the block and offset it had.
C28_Witness ==
    /\ ret.op = "FreeMemory"
    /\ ret.lost
    /\ hAllocations[ret.allocation].m_Type = "NONE"
    /\ \E g \in DOMAIN hAllocations :
           /\ hAllocations[g].m_Type = "BLOCK"
           /\ GetPool(g) = GetPool(ret.allocation)
           /\ hAllocations[g].m_Block = ret.block
           /\ hAllocations[g].m_Offset = ret.offset
           /\ InBlockVector(m_Pools, GetPool(g), hAllocations[g], g)

(***************************************************************************)
(* SpecMutex: two threads that call Allocate, Free, Defragment and         *)
(* MakePoolAllocationsLost of the block vectors of two pools.  Each call   *)
(* takes VmaBlockVector::m_Mutex with a VmaMutexLock (m_UseMutex is true:  *)
(* the allocator was made without                                          *)
(* VMA_ALLOCATOR_CREATE_EXTERNALLY_SYNCHRONIZED_BIT), changes the vector   *)
(* while it holds the mutex, and releases it.  A thread works on the       *)
(* allocations it owns; thread 1 alone defragments and sweeps, so          *)
(* m_PoolsMutex is never waited for and no allocation is made lost while   *)
(* its owner frees it.  threads[t] is [pc, op, allocation, hPool].         *)
(***************************************************************************)
MutexThreads == {1, 2}

\* The allocations each thread makes and frees.
MutexOwned == <<{6}, {2, 3}>>

MutexIdle == [pc |-> "idle", op |-> "None", allocation |-> VK_NULL_HANDLE, hPool |-> VK_NULL_HANDLE]

\* The lock is taken whether or not another thread holds it.
CanLock_Always(m_Mutex) == TRUE

\* VmaMutex::Lock returns once no thread holds the mutex.
CanLock(m_Mutex) == m_Mutex = NoThread

MutexInit ==
    /\ m_Blocks = << >>
    /\ m_Pools = CreatePools(<<TRUE, TRUE>>)
    /\ hAllocations = [h \in DOMAIN DefragCreateInfos |-> NoAllocation]
    /\ m_CurrentFrameIndex = 0
    /\ m_FrameInUseCount = 0
    /\ m_MinBlockCount = 0
    /\ m_HeapSizeLimit = VK_WHOLE_SIZE
    /\ m_HasEmptyBlock = FALSE
    /\ ret = [op |-> "Init", res |-> "VK_SUCCESS"]
    /\ threads = [t \in MutexThreads |-> MutexIdle]
    /\ hist = [madeLost |-> {}]

\* A thread enters a call, up to the VmaMutexLock of the vector.  vmaFreeMemory
\* of a lost allocation deletes the VmaAllocation_T and returns.
MutexBegin(t, op, allocation, hPool) ==
    /\ threads[t].pc = "idle"
    /\ CASE op = "Allocate" ->
              /\ allocation \in MutexOwned[t]
              /\ hAllocations[allocation].m_Type = "NONE"
              /\ hPool = GetPool(allocation)
         [] op = "Free" ->
              /\ allocation \in MutexOwned[t] \cap LiveHandles
              /\ hPool = GetPool(allocation)
         [] op = "Defragment" ->
              /\ t = 1
              /\ allocation = VK_NULL_HANDLE
              /\ \E h \in MutexOwned[t] \cap LiveHandles :
                     CanBeDefragmented(m_Pools, hAllocations, h) /\ GetPool(h) = hPool
         [] op = "MakePoolAllocationsLost" ->
              /\ t = 1
              /\ allocation = VK_NULL_HANDLE
    /\ IF op = "Free" /\ ~IsFreedFromMemory(hAllocations[allocation])
       THEN /\ hAllocations' = [hAllocations EXCEPT ![allocation] = NoAllocation]
            /\ ret' = [op |-> "Free", res |-> "VK_SUCCESS"]
            /\ UNCHANGED threads
       ELSE /\ threads' = [threads EXCEPT ![t] = [pc |-> "lock", op |-> op,
                                                  allocation |-> allocation,
                                                  hPool |-> hPool]]
            /\ UNCHANGED <<hAllocations, ret>>
    /\ UNCHANGED <<m_Blocks, m_Pools, m_CurrentFrameIndex, m_FrameInUseCount,
                   m_MinBlockCount, m_HeapSizeLimit, m_HasEmptyBlock, hist>>

\* VmaMutexLock::VmaMutexLock.
MutexLock(t) ==
    /\ threads[t].pc = "lock"
    /\ CanLock(m_Pools[threads[t].hPool].m_Mutex)
    /\ m_Pools' = [m_Pools EXCEPT ![threads[t].hPool].m_Mutex = t]
    /\ threads' = [threads EXCEPT ![t].pc = "locked"]
    /\ UNCHANGED <<m_Blocks, hAllocations, m_CurrentFrameIndex, m_FrameInUseCount,
                   m_MinBlockCount, m_HeapSizeLimit, m_HasEmptyBlock, ret, hist>>

\* What the call does to the vector between the lock and the unlock.
\* Returns the vectors it can leave, as [res, bv].
MutexChange(t, bv) ==
    CASE threads[t].op = "Allocate" ->
             {VmaBlockVector_Allocate(bv, m_CurrentFrameIndex, m_FrameInUseCount,
                  CHOOSE createInfo \in DefragCreateInfos[threads[t].allocation] : TRUE,
                  threads[t].allocation, "VK_SUCCESS", "VK_SUCCESS")}
      [] threads[t].op = "Free" ->
             {[res |-> "VK_SUCCESS", bv |-> VmaBlockVector_Free(bv, threads[t].allocation)]}
      [] threads[t].op = "Defragment" ->
             {[res |-> r.res, bv |-> r.bv] :
                 r \in {VmaBlockVector_Defragment(bv, infos, m_CurrentFrameIndex,
                            m_FrameInUseCount, SIZE_MAX, UINT32_MAX,
                            [b \in 1..m_MaxBlockCount |-> "VK_SUCCESS"]) :
                           infos \in SortedBlockInfos(bv,
                               {h \in MutexOwned[t] \cap LiveHandles :
                                   /\ CanBeDefragmented(m_Pools, hAllocations, h)
                                   /\ GetPool(h) = threads[t].hPool})}}
      [] threads[t].op = "MakePoolAllocationsLost" ->
             {[res |-> "VK_SUCCESS",
               bv |-> VmaBlockVector_MakePoolAllocationsLost(bv, m_CurrentFrameIndex,
                          m_FrameInUseCount).bv]}

\* The body of the call, under the lock.
MutexMutate(t) ==
    /\ threads[t].pc = "locked"
    /\ \E r \in MutexChange(t, PoolVector(m_Pools, hAllocations, threads[t].hPool)) :
           /\ m_Pools' = WithVector(m_Pools, threads[t].hPool, r.bv)
           /\ hAllocations' = r.bv.allocs
           /\ ret' = [op |-> threads[t].op, res |-> r.res]
    /\ threads' = [threads EXCEPT ![t].pc = "unlock"]
    /\ UNCHANGED <<m_Blocks, m_CurrentFrameIndex, m_FrameInUseCount, m_MinBlockCount, m_HeapSizeLimit,
                   m_HasEmptyBlock, hist>>

\* VmaMutexLock::~VmaMutexLock and the return of the call; vmaFreeMemory
\* deletes the VmaAllocation_T after VmaBlockVector::Free.
MutexUnlock(t) ==
    /\ threads[t].pc = "unlock"
    /\ m_Pools' = [m_Pools EXCEPT ![threads[t].hPool].m_Mutex = NoThread]
    /\ hAllocations' = IF threads[t].op = "Free"
                       THEN [hAllocations EXCEPT ![threads[t].allocation] = NoAllocation]
                       ELSE hAllocations
    /\ threads' = [threads EXCEPT ![t] = MutexIdle]
    /\ UNCHANGED <<m_Blocks, m_CurrentFrameIndex, m_FrameInUseCount, m_MinBlockCount, m_HeapSizeLimit,
                   m_HasEmptyBlock, ret, hist>>

\* vmaSetCurrentFrameIndex, by the thread that sweeps, between its calls.
MutexSetCurrentFrameIndex(frameIndex) ==
    /\ threads[1].pc = "idle"
    /\ frameIndex # VMA_FRAME_INDEX_LOST
    /\ m_CurrentFrameIndex' = frameIndex
    /\ UNCHANGED <<m_Blocks, m_Pools, hAllocations, m_FrameInUseCount, m_MinBlockCount, m_HeapSizeLimit,
                   m_HasEmptyBlock, ret, threads, hist>>

MutexNext ==
    \/ \E t \in MutexThreads :
       \E op \in {"Allocate", "Free", "Defragment", "MakePoolAllocationsLost"} :
       \E allocation \in DOMAIN hAllocations \cup {VK_NULL_HANDLE} :
       \E hPool \in DOMAIN m_Pools :
           MutexBegin(t, op, allocation, hPool)
    \/ \E t \in MutexThreads : MutexLock(t)
    \/ \E t \in MutexThreads : MutexMutate(t)
    \/ \E t \in MutexThreads : MutexUnlock(t)
    \/ \E frameIndex \in {m_CurrentFrameIndex + 1} \cap 0..MaxFrame :
           MutexSetCurrentFrameIndex(frameIndex)

SpecMutex == MutexInit /\ [][MutexNext]_vars

\* The threads that have locked the mutex of the vector of pool hPool and
\* have not unlocked it: their changes of the vector are in progress.
InProgress(hPool) ==
    {t \in MutexThreads : /\ threads[t].pc \in {"locked", "unlock"}
                          /\ threads[t].hPool = hPool}

\* C29: at no time are the changes that two threads make to one block vector,
\* in Allocate, Free, Defragment or MakePoolAllocationsLost, both in
\* progress; the thread whose change is in progress holds the vector's mutex.
C29_OneMutationAtATime ==
    \A hPool \in DOMAIN m_Pools :
        /\ Cardinality(InProgress(hPool)) <= 1
        /\ \A t \in InProgress(hPool) : m_Pools[hPool].m_Mutex = t

\* Witness for C29: a thread has changed a vector and still holds its mutex
\* while the other thread waits for that mutex.
C29_Witness ==
    \E t, u \in MutexThreads :
        /\ threads[t].pc = "unlock"
        /\ threads[t].op = "Defragment"
        /\ threads[u].pc = "lock"
        /\ threads[u].hPool = threads[t].hPool
        /\ m_Pools[threads[t].hPool].m_Mutex = t

\* The allocations a lost sweep at m_CurrentFrameIndex has to make lost: the
\* block allocations that can become lost, are not lost, and were last used
\* more than m_FrameInUseCount frames before the current one.
OutOfWindow ==
    {h \in DOMAIN hAllocations :
        /\ hAllocations[h].m_Type = "BLOCK"
        /\ CanBecomeLost(hAllocations[h])
        /\ GetLastUseFrameIndex(hAllocations[h]) # VMA_FRAME_INDEX_LOST
        /\ GetLastUseFrameIndex(hAllocations[h]) + m_FrameInUseCount < m_CurrentFrameIndex}

\* The count a lost sweep has returned.
LostAllocationCount(r) ==
    IF r.op = "MakeLost" THEN (IF r.res THEN 1 ELSE 0) ELSE r.res

\* C30: a vmaMakePoolAllocationsLost of the pool at frame m_CurrentFrameIndex
\* with window m_FrameInUseCount makes lost exactly the block allocations that
\* can become lost and have lastUse + m_FrameInUseCount < m_CurrentFrameIndex,
\* leaves every other allocation and its suballocation as they were, leaves
\* the bytes of the ones it made lost in free suballocations, and returns the
\* number of allocations it made lost.
C30_SweepMakesLostOutOfWindow ==
    [][ret'.op \in {"MakePoolAllocationsLost", "MakeLost"} =>
          /\ MadeLost(hAllocations, hAllocations') = OutOfWindow
          /\ \A h \in DOMAIN hAllocations \ OutOfWindow :
                 /\ hAllocations'[h] = hAllocations[h]
                 /\ \A b \in 1..Len(m_Blocks) :
                        h \in InBlock(m_Blocks[b].m_Metadata)
                            => h \in InBlock(m_Blocks'[b].m_Metadata)
          /\ \A h \in MadeLost(hAllocations, hAllocations') :
                 IsFreeRange(m_Blocks'[BlockIndex(m_Blocks', hAllocations[h].m_Block)].m_Metadata,
                             hAllocations[h].m_Offset, hAllocations[h].m_Size)
          /\ LostAllocationCount(ret') = Cardinality(MadeLost(hAllocations, hAllocations'))]_vars

\* A lost sweep has made an allocation lost and has left another one, which
\* cannot become lost, in the same block vector.
C30_SweepSeen ==
    /\ ret.op = "MakePoolAllocationsLost"
    /\ ret.res >= 1
    /\ hist.madeLost # {}
    /\ \E h \in LiveBlockAllocations : ~CanBecomeLost(hAllocations[h])

(***************************************************************************)
(* SpecWindow: the window test lastUse + frameInUseCount < currentFrame of *)
(* VmaAllocation_T::MakeLost and VmaBlockMetadata::CheckAllocation over    *)
(* every frame index below VMA_FRAME_INDEX_LOST.  Allocation 1 can become  *)
(* lost; allocation 2 fills a block and can be placed only where           *)
(* allocation 1 is made lost for it.                                       *)
(***************************************************************************)
WindowInit ==
    /\ m_Blocks = << >>
    /\ hAllocations = << NoAllocation, NoAllocation >>
    /\ m_CurrentFrameIndex = 0
    /\ m_FrameInUseCount \in 0..MaxFrameInUseCount
    /\ m_MinBlockCount = 0
    /\ m_HeapSizeLimit = VK_WHOLE_SIZE
    /\ m_Pools = << >>
    /\ m_HasEmptyBlock = FALSE
    /\ ret = [op |-> "Init", res |-> "VK_SUCCESS"]
    /\ threads = NoThreads
    /\ hist = [madeLost |-> {}]

WindowNext ==
    \/ AllocateMemory(LostableCreateInfo, 1, "VK_SUCCESS", "VK_SUCCESS")
    \/ AllocateMemory(EvictingCreateInfo, 2, "VK_SUCCESS", "VK_SUCCESS")
    \/ \E allocation \in {1, 2} : FreeMemory(allocation)
    \/ \E frameIndex \in 0..(FrameMod - 2) : SetCurrentFrameIndex(frameIndex)
    \/ MakePoolAllocationsLost

SpecWindow == WindowInit /\ [][WindowNext]_vars

\* C40: the window test of MakeLost and CheckAllocation, made in uint32_t,
\* agrees with lastUse + frameInUseCount < currentFrame in unbounded
\* integers: whatever a lost sweep or an evicting allocation makes lost has
\* lastUse + frameInUseCount < currentFrame without wrap-around, so an
\* allocation whose sum reaches 2^32 is not made lost inside its window.
C40_WindowTestDoesNotWrap ==
    [][\A h \in MadeLost(hAllocations, hAllocations') :
           GetLastUseFrameIndex(hAllocations[h]) + m_FrameInUseCount
               < m_CurrentFrameIndex]_vars

\* The same for the evicting allocation alone, whose test is the one of
\* VmaBlockMetadata::CheckAllocation.
C40_CheckAllocationDoesNotWrap ==
    [][ret'.op = "AllocateMemory" =>
           \A h \in MadeLost(hAllocations, hAllocations') :
               GetLastUseFrameIndex(hAllocations[h]) + m_FrameInUseCount
                   < m_CurrentFrameIndex]_vars

\* Whether a request can stand in the free suballocation at position i: at
\* some offset of the region that has the requested alignment, all of it
\* inside the region, sharing no page of MetaGranularity bytes with a used
\* suballocation of a conflicting type.
FitsInFree(meta, i, r) ==
    \E offset \in meta.m_Suballocations[i].offset
                  ..(meta.m_Suballocations[i].offset + meta.m_Suballocations[i].size - r.size) :
        /\ offset % r.alignment = 0
        /\ \A j \in UsedItems(meta) :
               VmaIsBufferImageGranularityConflict(meta.m_Suballocations[j].type, r.type)
                   => PagesOf(meta.m_Suballocations[j], MetaGranularity)
                          \cap PagesOf([offset |-> offset, size |-> r.size], MetaGranularity)
                      = {}

\* What CreateAllocationRequest returns for a request when nothing may be
\* made lost.
RequestWithoutEviction(r) ==
    CreateAllocationRequest(Meta, hAllocations, m_CurrentFrameIndex, m_FrameInUseCount,
        MetaGranularity, r.size, r.alignment, r.type, FALSE)

\* C39 as stated: without eviction CreateAllocationRequest succeeds whenever
\* the block has a free suballocation, of whatever size, in which the request
\* fits at its alignment with no granularity conflict.
C39_EveryFreeRegionIsFound ==
    \A r \in MetaRequests :
        (\E i \in FreeItems(Meta) : FitsInFree(Meta, i, r))
            => RequestWithoutEviction(r).ret

\* C39: without eviction CreateAllocationRequest succeeds whenever the block
\* has a free suballocation of at least
\* VMA_MIN_FREE_SUBALLOCATION_SIZE_TO_REGISTER bytes in which the request fits
\* at its alignment with no granularity conflict.
C39_RegisteredFreeRegionIsFound ==
    \A r \in MetaRequests :
        (\E i \in FreeItems(Meta) :
            /\ Meta.m_Suballocations[i].size >= VMA_MIN_FREE_SUBALLOCATION_SIZE_TO_REGISTER
            /\ FitsInFree(Meta, i, r))
            => RequestWithoutEviction(r).ret

\* Witness for C39: after an Alloc the block has two registered free regions,
\* and a request fits in the larger one alone, which the search reaches after
\* the smaller one has failed CheckAllocation.
C39_Witness ==
    /\ ret.op = "Alloc"
    /\ \E r \in MetaRequests : \E i, j \in FreeItems(Meta) :
           /\ Meta.m_Suballocations[i].size >= r.size
           /\ Meta.m_Suballocations[i].size >= VMA_MIN_FREE_SUBALLOCATION_SIZE_TO_REGISTER
           /\ Meta.m_Suballocations[i].size < Meta.m_Suballocations[j].size
           /\ ~FitsInFree(Meta, i, r)
           /\ FitsInFree(Meta, j, r)
           /\ RequestWithoutEviction(r).ret
           /\ RequestWithoutEviction(r).request.item = j

(***************************************************************************)
(* SpecPartial: step 3 of VmaBlockVector::Allocate for a request that      *)
(* needs two allocations made lost, against threads that touch them.       *)
(* Allocations 1 and 2 can become lost and fill a block; allocation 3 is   *)
(* the whole block, asked with CAN_MAKE_OTHER_LOST and NEVER_ALLOCATE,     *)
(* with or without MAPPED.                                                 *)
(* The allocating call holds the vector's mutex from its begin to its      *)
(* return, so AllocateMemory and FreeMemory of the others run while it is  *)
(* idle; vmaTouchAllocation and vmaSetCurrentFrameIndex take no lock and   *)
(* run between any two of its steps: the search of a round, and each turn  *)
(* of the loop of MakeRequestedAllocationsLost.  threads is the allocating *)
(* thread, [pc, createInfo, currentFrameIndex, tryIndex, block, request,   *)
(* before], before being the vector as the call found it.                  *)
(***************************************************************************)
PartialIdle ==
    [pc |-> "idle", createInfo |-> EvictingCreateInfo, currentFrameIndex |-> 0,
     tryIndex |-> 0, block |-> 0,
     request |-> NoRequest, before |-> [m_Blocks |-> << >>, allocs |-> << >>]]

PartialInit ==
    /\ m_Blocks = << >>
    /\ hAllocations = << NoAllocation, NoAllocation, NoAllocation >>
    /\ m_CurrentFrameIndex = 0
    /\ m_FrameInUseCount = 0
    /\ m_MinBlockCount = 0
    /\ m_HeapSizeLimit = VK_WHOLE_SIZE
    /\ m_Pools = << >>
    /\ m_HasEmptyBlock = FALSE
    /\ ret = [op |-> "Init", res |-> "VK_SUCCESS"]
    /\ threads = PartialIdle
    /\ hist = [madeLost |-> {}]

\* The allocating call returns res and leaves the vector as bv.
PartialReturn(res, bv) ==
    /\ m_Blocks' = bv.m_Blocks
    /\ m_HasEmptyBlock' = bv.m_HasEmptyBlock
    /\ hAllocations' = bv.allocs
    /\ ret' = [op |-> "AllocateMemory", res |-> res, asserted |-> FALSE]
    /\ hist' = [madeLost |-> MadeLost(hAllocations, bv.allocs)]
    /\ threads' = PartialIdle
    /\ UNCHANGED <<m_CurrentFrameIndex, m_FrameInUseCount, m_MinBlockCount, m_HeapSizeLimit, m_Pools>>

\* The call goes on at pc.
PartialGoto(pc, tryIndex, block, request) ==
    /\ threads' = [threads EXCEPT !.pc = pc, !.tryIndex = tryIndex, !.block = block,
                                  !.request = request]
    /\ UNCHANGED <<m_Blocks, hAllocations, m_CurrentFrameIndex, m_FrameInUseCount,
                   m_MinBlockCount, m_HeapSizeLimit, m_Pools, m_HasEmptyBlock, ret, hist>>

\* VmaBlockVector::Allocate of allocation 3 begins: steps 1 and 2, which make
\* nothing lost.
PartialAllocateBegin(createInfo, vkMapMemory) ==
    /\ threads.pc = "idle"
    /\ hAllocations[3].m_Type = "NONE"
    /\ createInfo.mapped => \A b \in 1..Len(m_Blocks) : m_Blocks[b].m_MapCount < MaxMapCount
    /\ \E r \in {VmaBlockVector_Allocate(BlockVector, m_CurrentFrameIndex,
                     m_FrameInUseCount,
                     [createInfo EXCEPT !.canMakeOtherLost = FALSE], 3,
                     "VK_SUCCESS", vkMapMemory)} :
           IF r.res # "VK_ERROR_OUT_OF_DEVICE_MEMORY"
           THEN PartialReturn(r.res, r.bv)
           ELSE /\ threads' = [PartialIdle EXCEPT
                                  !.pc = "search",
                                  !.createInfo = createInfo,
                                  !.currentFrameIndex = m_CurrentFrameIndex,
                                  !.before = [m_Blocks |-> m_Blocks,
                                              allocs |-> hAllocations]]
                /\ UNCHANGED <<m_Blocks, hAllocations, m_CurrentFrameIndex,
                               m_FrameInUseCount, m_MinBlockCount, m_HeapSizeLimit, m_Pools,
                               m_HasEmptyBlock, ret, hist>>

\* One round of step 3 up to MakeRequestedAllocationsLost: the search, and
\* the Map of the block of the best request when the allocation is asked
\* mapped.  Map counts are followed up to MaxMapCount.
PartialSearch(vkMapMemory) ==
    /\ threads.pc = "search"
    /\ IF threads.tryIndex >= VMA_ALLOCATION_TRY_COUNT
       THEN PartialReturn("VK_ERROR_TOO_MANY_OBJECTS", BlockVector)
       ELSE \E best \in {BestRequestBlock(BlockVector, threads.currentFrameIndex,
                             m_FrameInUseCount, threads.createInfo, 1,
                             [block |-> 0, request |-> NoRequest,
                              cost |-> VK_WHOLE_SIZE])} :
                IF best.block = 0
                THEN PartialReturn("VK_ERROR_OUT_OF_DEVICE_MEMORY", BlockVector)
                ELSE \E m \in {MapIfMapped(m_Blocks[best.block], threads.createInfo.mapped,
                                    vkMapMemory)} :
                         IF m.block.m_MapCount > MaxMapCount
                         THEN FALSE
                         ELSE IF m.res # "VK_SUCCESS"
                         THEN PartialReturn(m.res, BlockVector)
                         ELSE /\ m_Blocks' = [m_Blocks EXCEPT ![best.block] = m.block]
                              /\ threads' = [threads EXCEPT !.pc = "makeLost",
                                                            !.block = best.block,
                                                            !.request = best.request]
                              /\ UNCHANGED <<hAllocations, m_CurrentFrameIndex,
                                             m_FrameInUseCount, m_MinBlockCount, m_HeapSizeLimit, m_Pools,
                                             m_HasEmptyBlock, ret, hist>>

\* One turn of the while loop of MakeRequestedAllocationsLost, or what follows
\* the loop: Alloc in the region that is free now.
PartialMakeLost ==
    /\ threads.pc = "makeLost"
    /\ IF threads.request.itemsToMakeLostCount > 0
       THEN \E item \in {IF m_Blocks[threads.block].m_Metadata
                                .m_Suballocations[threads.request.item].type
                                = VMA_SUBALLOCATION_TYPE_FREE
                         THEN threads.request.item + 1 ELSE threads.request.item} :
            \E h \in {m_Blocks[threads.block].m_Metadata.m_Suballocations[item].hAllocation} :
            \E lost \in {MakeLost(hAllocations[h], threads.currentFrameIndex,
                             m_FrameInUseCount)} :
                IF lost.ret
                THEN \E freed \in {FreeSuballocation(m_Blocks[threads.block].m_Metadata,
                                       item)} :
                         /\ m_Blocks' = [m_Blocks EXCEPT ![threads.block].m_Metadata =
                                                             freed.meta]
                         /\ hAllocations' = [hAllocations EXCEPT ![h] = lost.alloc]
                         /\ threads' = [threads EXCEPT
                                !.request.item = freed.item,
                                !.request.itemsToMakeLostCount = @ - 1]
                         /\ UNCHANGED <<m_CurrentFrameIndex, m_FrameInUseCount,
                                        m_MinBlockCount, m_HeapSizeLimit, m_Pools, m_HasEmptyBlock, ret,
                                        hist>>
                ELSE PartialGoto("search", threads.tryIndex + 1, 0, NoRequest)
       ELSE PartialReturn("VK_SUCCESS",
                AllocateFromBlock(NoLongerEmpty(BlockVector, threads.block),
                    threads.block, threads.request, threads.createInfo,
                    threads.currentFrameIndex, 3))

PartialNext ==
    \/ \E pAllocation \in {1, 2} :
           /\ threads.pc = "idle"
           /\ AllocateMemory(LostableCreateInfo, pAllocation, "VK_SUCCESS", "VK_SUCCESS")
    \/ \E allocation \in {1, 2, 3} :
           /\ threads.pc = "idle"
           /\ FreeMemory(allocation)
    \/ \E hAllocation \in {1, 2} : TouchAllocationCall(hAllocation)
    \/ \E frameIndex \in 0..MaxFrame : SetCurrentFrameIndex(frameIndex)
    \/ \E mapped \in BOOLEAN : \E vkMapMemory \in VkMapMemoryResults :
           PartialAllocateBegin([EvictingCreateInfo EXCEPT !.mapped = mapped], vkMapMemory)
    \/ \E vkMapMemory \in VkMapMemoryResults : PartialSearch(vkMapMemory)
    \/ PartialMakeLost

SpecPartial == PartialInit /\ [][PartialNext]_vars

\* The vector as the AllocateMemory that returns in this step found it.
PartialBefore ==
    IF threads.pc = "idle" THEN [m_Blocks |-> m_Blocks, allocs |-> hAllocations]
    ELSE threads.before

\* C38: when VmaBlockVector::Allocate returns an error, the call has made no
\* allocation lost and every block has the suballocations it had when the
\* call began.
C38_FailedAllocateChangesNothing ==
    [][/\ ret'.op = "AllocateMemory"
       /\ ret'.res # "VK_SUCCESS"
       /\ threads'.pc = "idle"
       => /\ MadeLost(PartialBefore.allocs, hAllocations') = {}
          /\ \A b \in 1..Len(PartialBefore.m_Blocks) :
                 m_Blocks'[b].m_Metadata.m_Suballocations
                     = PartialBefore.m_Blocks[b].m_Metadata.m_Suballocations]_vars

\* The same for calls that no vmaTouchAllocation runs into: an error of
\* VmaBlockVector::Allocate, of vkAllocateMemory or of vkMapMemory leaves the
\* allocations not lost and the blocks that were there as they were.
C38_FailedAllocateAloneChangesNothing ==
    [][/\ ret'.op = "AllocateMemory"
       /\ ret'.res # "VK_SUCCESS"
       => /\ MadeLost(hAllocations, hAllocations') = {}
          /\ \A b \in 1..Len(m_Blocks) :
                 m_Blocks'[b].m_Metadata.m_Suballocations
                     = m_Blocks[b].m_Metadata.m_Suballocations]_vars

(***************************************************************************)
(* SpecFreeRace: vmaFreeMemory of allocation 1, which can become lost,     *)
(* against a thread that sweeps the pool and allocates the whole block     *)
(* with CAN_MAKE_OTHER_LOST (allocation 2).  VmaAllocator_T::FreeMemory    *)
(* tests the allocation for being lost before VmaBlockVector::Free takes   *)
(* the vector's mutex, so the calls of the other thread, which hold the    *)
(* mutex from start to end, run before the test, between the test and the  *)
(* lock, or after the call.  threads is the freeing thread, [pc].          *)
(***************************************************************************)
FreeRaceInit ==
    /\ m_Blocks = << >>
    /\ hAllocations = << NoAllocation, NoAllocation >>
    /\ m_CurrentFrameIndex = 0
    /\ m_FrameInUseCount = 0
    /\ m_MinBlockCount = 0
    /\ m_HeapSizeLimit = VK_WHOLE_SIZE
    /\ m_Pools = << >>
    /\ m_HasEmptyBlock = FALSE
    /\ ret = [op |-> "Init", res |-> "VK_SUCCESS"]
    /\ threads = [pc |-> "idle"]
    /\ hist = [madeLost |-> {}]

\* VmaAllocator_T::FreeMemory up to pBlockVector->Free: the test for a lost
\* allocation, after which a lost one is deleted at once.
FreeMemoryBegin(allocation) ==
    /\ threads.pc = "idle"
    /\ allocation \in LiveHandles
    /\ IF IsFreedFromMemory(hAllocations[allocation])
       THEN /\ threads' = [pc |-> "Free"]
            /\ UNCHANGED <<hAllocations, ret>>
       ELSE /\ hAllocations' = [hAllocations EXCEPT ![allocation] = NoAllocation]
            /\ ret' = [op |-> "FreeMemory", res |-> "VK_SUCCESS"]
            /\ UNCHANGED threads
    /\ hist' = [madeLost |-> {}]
    /\ UNCHANGED <<m_Blocks, m_CurrentFrameIndex, m_FrameInUseCount, m_MinBlockCount, m_HeapSizeLimit,
                   m_Pools, m_HasEmptyBlock>>

\* VmaBlockVector::Free under the mutex, and the vma_delete of the
\* VmaAllocation_T that follows it.
FreeMemoryFree(allocation) ==
    /\ threads.pc = "Free"
    /\ \E bv \in {VmaBlockVector_Free(BlockVector, allocation)} :
           /\ m_Blocks' = bv.m_Blocks
           /\ m_HasEmptyBlock' = bv.m_HasEmptyBlock
           /\ hAllocations' = [bv.allocs EXCEPT ![allocation] = NoAllocation]
    /\ threads' = [pc |-> "idle"]
    /\ ret' = [op |-> "FreeMemory", res |-> "VK_SUCCESS"]
    /\ hist' = [madeLost |-> {}]
    /\ UNCHANGED <<m_CurrentFrameIndex, m_FrameInUseCount, m_MinBlockCount, m_HeapSizeLimit, m_Pools>>

FreeRaceNext ==
    \/ /\ threads.pc = "idle"
       /\ AllocateMemory(LostableCreateInfo, 1, "VK_SUCCESS", "VK_SUCCESS")
    \/ FreeMemoryBegin(1)
    \/ FreeMemoryFree(1)
    \/ AllocateMemory(EvictingCreateInfo, 2, "VK_SUCCESS", "VK_SUCCESS")
    \/ FreeMemory(2)
    \/ MakePoolAllocationsLost
    \/ \E frameIndex \in {m_CurrentFrameIndex + 1} \cap 0..MaxFrame :
           SetCurrentFrameIndex(frameIndex)

SpecFreeRace == FreeRaceInit /\ [][FreeRaceNext]_vars

\* C37: a vmaFreeMemory of an allocation that can become lost, run against a
\* lost sweep or an evicting allocation of another thread, reaches
\* VmaBlockMetadata::Free only while a suballocation of the allocation's block
\* holds the allocation: "Not found!" is not reached.
C37_FreeFindsSuballocation ==
    [][threads.pc = "Free" /\ threads'.pc = "idle" =>
           \E b \in 1..Len(m_Blocks) :
               /\ m_Blocks[b].id = hAllocations[1].m_Block
               /\ FindAllocation(m_Blocks[b].m_Metadata, 1) # 0]_vars

(***************************************************************************)
(* The map count of a block against the mappings of its allocations.       *)
(***************************************************************************)
\* What an allocation holds of its block's map count: its vmaMapMemory calls
\* not yet undone, and one more when it was created mapped.
MappingsOf(alloc) ==
    MapRefCount(alloc) + (IF IsPersistentMap(alloc) THEN 1 ELSE 0)

RECURSIVE SumMappings(_, _)
SumMappings(allocs, handles) ==
    IF handles = {} THEN 0
    ELSE LET h == CHOOSE x \in handles : TRUE
         IN  MappingsOf(allocs[h]) + SumMappings(allocs, handles \ {h})

BlockMapCountIsSum ==
    \A b \in 1..Len(m_Blocks) :
        m_Blocks[b].m_MapCount
            = SumMappings(hAllocations, InBlock(m_Blocks[b].m_Metadata))

\* C36: whenever no operation is in progress, the map count of every block is
\* the sum, over the allocations in the block, of their outstanding
\* vmaMapMemory calls plus one for each allocation created mapped; an
\* Allocate whose eviction round is retried after a concurrent
\* vmaTouchAllocation is among the operations.
C36_MapCountIsSumOfMappings ==
    threads.pc = "idle" => BlockMapCountIsSum

\* The same where every call runs from start to end before the next one:
\* AllocateMemory, FreeMemory, MapMemory, UnmapMemory, MakePoolAllocationsLost
\* and Defragment.
C36_MapCountIsSumBetweenCalls ==
    BlockMapCountIsSum

\* A block is mapped for two allocations, one created mapped and one mapped
\* by vmaMapMemory.
C36_Witness ==
    \E b \in 1..Len(m_Blocks) :
        /\ m_Blocks[b].m_MapCount >= 2
        /\ \E h \in InBlock(m_Blocks[b].m_Metadata) : IsPersistentMap(hAllocations[h])
        /\ \E h \in InBlock(m_Blocks[b].m_Metadata) : MapRefCount(hAllocations[h]) > 0

(***************************************************************************)
(* SpecOrder: defragmentation of blocks that hold allocations of several   *)
(* sizes, some of them left out of the call, with the order in which       *)
(* DefragmentRound comes to the allocations kept in ret.                   *)
(***************************************************************************)
OrderCreateInfos ==
    LET Info(size) ==
            [size |-> size, alignment |-> 1, type |-> VMA_SUBALLOCATION_TYPE_BUFFER,
             pool |-> TRUE, dedicatedMemory |-> FALSE, neverAllocate |-> FALSE,
             mapped |-> FALSE, canBecomeLost |-> FALSE, canMakeOtherLost |-> FALSE]
    IN  << {Info(8)}, {Info(8), Info(16)}, {Info(16)}, {Info(24)} >>

OrderInit ==
    /\ m_Blocks = << >>
    /\ hAllocations = [h \in DOMAIN OrderCreateInfos |-> NoAllocation]
    /\ m_CurrentFrameIndex = 0
    /\ m_FrameInUseCount = 0
    /\ m_MinBlockCount = 0
    /\ m_HeapSizeLimit = VK_WHOLE_SIZE
    /\ m_Pools = << >>
    /\ m_HasEmptyBlock = FALSE
    /\ ret = [op |-> "Init", res |-> "VK_SUCCESS"]
    /\ threads = NoThreads
    /\ hist = [madeLost |-> {}]

\* VmaAllocator_T::Defragment as in Defragment, with m_Blocks of the
\* defragmentator as Defragment sorted it (infos) and the allocations the
\* rounds came to (attempts) kept in ret.
OrderDefragment(pAllocations, pDefragmentationInfo, vkMapMemory) ==
    /\ pAllocations \subseteq LiveHandles
    /\ pAllocations # {}
    /\ UNCHANGED <<m_CurrentFrameIndex, m_FrameInUseCount, m_MinBlockCount, m_HeapSizeLimit, m_Pools, threads>>
    /\ hist' = [madeLost |-> {}]
    /\ \E infos \in SortedBlockInfos(BlockVector, pAllocations) :
       \E r \in {VmaBlockVector_Defragment(BlockVector, infos, m_CurrentFrameIndex,
                     m_FrameInUseCount, pDefragmentationInfo.maxBytesToMove,
                     pDefragmentationInfo.maxAllocationsToMove, vkMapMemory)} :
           /\ m_Blocks' = r.bv.m_Blocks
           /\ m_HasEmptyBlock' = r.bv.m_HasEmptyBlock
           /\ hAllocations' = r.bv.allocs
           /\ ret' = [op |-> "Defragment", res |-> r.res, moves |-> r.moves,
                      infos |-> infos, attempts |-> r.attempts]

OrderNext ==
    \/ \E pAllocation \in DOMAIN hAllocations :
       \E createInfo \in OrderCreateInfos[pAllocation] :
           AllocateMemory(createInfo, pAllocation, "VK_SUCCESS", "VK_SUCCESS")
    \/ \E allocation \in DOMAIN hAllocations : FreeMemory(allocation)
    \/ \E pAllocations \in SUBSET LiveHandles :
       \E call \in DefragmentCalls :
           OrderDefragment(pAllocations, call.pDefragmentationInfo, call.vkMapMemory)

SpecOrder == OrderInit /\ [][OrderNext]_vars

\* m_Blocks of the defragmentator has the blocks with content that is not
\* movable first, and within each part the blocks by ascending free space.
InDestinationOrder(bv, infos) ==
    \A i, j \in 1..Len(infos) :
        i < j =>
            /\ infos[i].m_HasNonMovableAllocations \/ ~infos[j].m_HasNonMovableAllocations
            /\ infos[i].m_HasNonMovableAllocations = infos[j].m_HasNonMovableAllocations
               => bv.m_Blocks[infos[i].m_pBlock].m_Metadata.m_SumFreeSize
                     <= bv.m_Blocks[infos[j].m_pBlock].m_Metadata.m_SumFreeSize

\* In each round the blocks are come to from the last toward the first.
FromLastBlockToFirst(attempts) ==
    \A r \in 1..Len(attempts) : \A k, l \in 1..Len(attempts[r]) :
        k < l => attempts[r][k].srcBlockIndex >= attempts[r][l].srcBlockIndex

\* In each round the allocations of one block are come to from the largest
\* to the smallest.
FromLargestToSmallest(allocs, attempts) ==
    \A r \in 1..Len(attempts) : \A k, l \in 1..Len(attempts[r]) :
        k < l /\ attempts[r][k].srcBlockIndex = attempts[r][l].srcBlockIndex
            => allocs[attempts[r][k].hAllocation].m_Size
                  >= allocs[attempts[r][l].hAllocation].m_Size

\* In each round the allocations of one block are come to from the smallest
\* to the largest.
FromSmallestToLargest(allocs, attempts) ==
    \A r \in 1..Len(attempts) : \A k, l \in 1..Len(attempts[r]) :
        k < l /\ attempts[r][k].srcBlockIndex = attempts[r][l].srcBlockIndex
            => allocs[attempts[r][k].hAllocation].m_Size
                  <= allocs[attempts[r][l].hAllocation].m_Size

\* Every move goes to a block at or before the allocation's own, and the
\* first move of the call, which finds the vector as the call found it, goes
\* to the first block of the order that has a fit.
PlacedInFirstFit(bv, infos, moves) ==
    /\ \A k \in 1..Len(moves) : moves[k].dstBlockIndex <= moves[k].srcBlockIndex
    /\ Len(moves) > 0 =>
           \A dst \in 1..(moves[1].dstBlockIndex - 1) :
               ~CreateAllocationRequest(bv.m_Blocks[infos[dst].m_pBlock].m_Metadata,
                    bv.allocs, m_CurrentFrameIndex, m_FrameInUseCount,
                    m_BufferImageGranularity, moves[1].size,
                    bv.allocs[moves[1].hAllocation].m_Alignment,
                    bv.allocs[moves[1].hAllocation].m_SuballocationType, FALSE).ret

\* C35: in each defragmentation round the source blocks are visited from the
\* last of the order (blocks with non-movable content first, then ascending
\* free space) toward the first, within a source block the movable
\* allocations are attempted from the largest to the smallest, and each is
\* placed in the first block, at or before its own, that has a fit.
C35_RoundVisitsLargestFirst ==
    [][ret'.op = "Defragment" =>
           /\ InDestinationOrder(BlockVector, ret'.infos)
           /\ FromLastBlockToFirst(ret'.attempts)
           /\ FromLargestToSmallest(hAllocations, ret'.attempts)
           /\ PlacedInFirstFit(BlockVector, ret'.infos, ret'.moves)]_vars

\* The same with the allocations of a source block attempted from the
\* smallest to the largest.
C35_RoundVisitsSmallestFirst ==
    [][ret'.op = "Defragment" =>
           /\ InDestinationOrder(BlockVector, ret'.infos)
           /\ FromLastBlockToFirst(ret'.attempts)
           /\ FromSmallestToLargest(hAllocations, ret'.attempts)
           /\ PlacedInFirstFit(BlockVector, ret'.infos, ret'.moves)]_vars

\* A round has moved two allocations of different sizes out of one block.
C35_Witness ==
    /\ ret.op = "Defragment"
    /\ \E k, l \in 1..Len(ret.moves) :
           /\ k < l
           /\ ret.moves[k].srcBlockIndex = ret.moves[l].srcBlockIndex
           /\ ret.moves[k].dstBlockIndex < ret.moves[k].srcBlockIndex
           /\ ret.moves[k].size # ret.moves[l].size

(***************************************************************************)
(* Step 1 of VmaBlockVector::Allocate and the order of the blocks.         *)
(***************************************************************************)
\* The blocks of bv where CreateAllocationRequest without eviction succeeds
\* for the request.
BlocksThatFit(bv, createInfo) ==
    {b \in 1..Len(bv.m_Blocks) :
        CreateAllocationRequest(bv.m_Blocks[b].m_Metadata, bv.allocs, m_CurrentFrameIndex,
            m_FrameInUseCount, m_BufferImageGranularity, createInfo.size,
            createInfo.alignment, createInfo.type, FALSE).ret}

\* The allocation h that this step has made in a block that was there.
PlacedInExistingBlock(h) ==
    /\ ret'.op = "AllocateMemory"
    /\ ret'.res = "VK_SUCCESS"
    /\ hAllocations[h].m_Type = "NONE"
    /\ hAllocations'[h].m_Type = "BLOCK"
    /\ \E b \in 1..Len(m_Blocks) : m_Blocks[b].id = hAllocations'[h].m_Block

\* C34: step 1 of VmaBlockVector::Allocate places the request in the block
\* with the least total free space among the existing blocks that can fit
\* it, after any sequence of earlier allocations and frees.
C34_PlacedInLeastFreeBlock ==
    [][\A h \in DOMAIN hAllocations :
           PlacedInExistingBlock(h) =>
               \A b \in 1..Len(m_Blocks) :
                   m_Blocks[b].id = hAllocations'[h].m_Block =>
                       \A c \in BlocksThatFit(BlockVector,
                                    [size |-> hAllocations'[h].m_Size,
                                     alignment |-> hAllocations'[h].m_Alignment,
                                     type |-> hAllocations'[h].m_SuballocationType]) :
                           GetSumFreeSize(m_Blocks[b].m_Metadata)
                               <= GetSumFreeSize(m_Blocks[c].m_Metadata)]_vars

\* What step 1 does: the request goes to the first block of m_Blocks that
\* can fit it.
C34_PlacedInFirstBlockThatFits ==
    [][\A h \in DOMAIN hAllocations :
           PlacedInExistingBlock(h) =>
               \A b \in 1..Len(m_Blocks) :
                   m_Blocks[b].id = hAllocations'[h].m_Block =>
                       \A c \in BlocksThatFit(BlockVector,
                                    [size |-> hAllocations'[h].m_Size,
                                     alignment |-> hAllocations'[h].m_Alignment,
                                     type |-> hAllocations'[h].m_SuballocationType]) :
                           b <= c]_vars

\* Two blocks can fit a request and the first has more free space.
C34_Witness ==
    /\ ret.op = "AllocateMemory"
    /\ ret.res = "VK_SUCCESS"
    /\ Len(m_Blocks) = 2
    /\ GetSumFreeSize(m_Blocks[1].m_Metadata) > GetSumFreeSize(m_Blocks[2].m_Metadata)
    /\ GetSumFreeSize(m_Blocks[2].m_Metadata) >= 8

(***************************************************************************)
(* SpecHeap: a memory type whose heap has a size limit                     *)
(* (VmaAllocatorCreateInfo::pHeapSizeLimit), with the default block vector *)
(* of the type or a custom pool in it, and dedicated allocations.  The     *)
(* default vector sizes its new blocks (m_IsCustomPool == false) and has   *)
(* no limit on their number; the custom pool has blocks of                 *)
(* HeapPreferredBlockSize, at most m_MaxBlockCount of them.  threads holds *)
(* which of the two the vector is, [m_IsCustomPool].  The device gives     *)
(* memory up to some size, deviceMax, which may differ from call to call.  *)
(***************************************************************************)
pHeapSizeLimit == 80
HeapPreferredBlockSize == 64
NEW_BLOCK_SIZE_SHIFT_MAX == 3
DeviceMaxima == {0, 16, 64}

HeapCreateInfos ==
    LET Info(size) ==
            [size |-> size, alignment |-> 1, type |-> VMA_SUBALLOCATION_TYPE_BUFFER,
             pool |-> TRUE, dedicatedMemory |-> FALSE, neverAllocate |-> FALSE,
             mapped |-> FALSE, canBecomeLost |-> FALSE, canMakeOtherLost |-> FALSE]
    IN  << {Info(8)}, {Info(16)}, {Info(24)}, {Info(40)} >>

\* vkAllocateMemory of a device that has deviceMax bytes to give.
DeviceAnswer(deviceMax, allocationSize) ==
    IF allocationSize <= deviceMax THEN "VK_SUCCESS" ELSE "VK_ERROR_OUT_OF_DEVICE_MEMORY"

AllocateVulkanMemory_NoLimit(heapSizeLimit, allocationSize, deviceMax) ==
    [res |-> DeviceAnswer(deviceMax, allocationSize),
     m_HeapSizeLimit |-> heapSizeLimit, calls |-> <<allocationSize>>]

\* VmaAllocator_T::AllocateVulkanMemory.  Returns [res, m_HeapSizeLimit,
\* calls], calls being the sizes vkAllocateMemory was called with.
AllocateVulkanMemory(heapSizeLimit, allocationSize, deviceMax) ==
    IF heapSizeLimit # VK_WHOLE_SIZE
    THEN IF heapSizeLimit >= allocationSize
         THEN [res |-> DeviceAnswer(deviceMax, allocationSize),
               m_HeapSizeLimit |->
                   IF DeviceAnswer(deviceMax, allocationSize) = "VK_SUCCESS"
                   THEN heapSizeLimit - allocationSize ELSE heapSizeLimit,
               calls |-> <<allocationSize>>]
         ELSE [res |-> "VK_ERROR_OUT_OF_DEVICE_MEMORY", m_HeapSizeLimit |-> heapSizeLimit,
               calls |-> << >>]
    ELSE [res |-> DeviceAnswer(deviceMax, allocationSize),
          m_HeapSizeLimit |-> heapSizeLimit, calls |-> <<allocationSize>>]

\* VmaAllocator_T::FreeVulkanMemory: the heap's m_HeapSizeLimit after it.
FreeVulkanMemory(heapSizeLimit, size) ==
    IF heapSizeLimit # VK_WHOLE_SIZE THEN heapSizeLimit + size ELSE heapSizeLimit

\* VmaBlockVector::CalcMaxBlockSize, the loop from block i down.
RECURSIVE CalcMaxBlockSizeFrom(_, _, _, _)
CalcMaxBlockSizeFrom(blocks, preferredBlockSize, i, result) ==
    IF i = 0 THEN result
    ELSE LET larger == IF blocks[i].m_Metadata.m_Size > result
                       THEN blocks[i].m_Metadata.m_Size ELSE result
         IN  IF larger >= preferredBlockSize THEN larger
             ELSE CalcMaxBlockSizeFrom(blocks, preferredBlockSize, i - 1, larger)

CalcMaxBlockSize(blocks, preferredBlockSize) ==
    CalcMaxBlockSizeFrom(blocks, preferredBlockSize, Len(blocks), 0)

\* The first loop of step 2 of Allocate from turn i on.  Returns
\* [newBlockSize, newBlockSizeShift].
RECURSIVE NewBlockSizeFrom(_, _, _, _, _)
NewBlockSizeFrom(newBlockSize, newBlockSizeShift, maxExistingBlockSize, size, i) ==
    IF /\ i < NEW_BLOCK_SIZE_SHIFT_MAX
       /\ newBlockSize \div 2 > maxExistingBlockSize
       /\ newBlockSize \div 2 >= (size * 2) % VkDeviceSizeMod
    THEN NewBlockSizeFrom(newBlockSize \div 2, newBlockSizeShift + 1,
             maxExistingBlockSize, size, i + 1)
    ELSE [newBlockSize |-> newBlockSize, newBlockSizeShift |-> newBlockSizeShift]

\* Sizing that halves NEW_BLOCK_SIZE_SHIFT_MAX times whatever is asked.
NewBlockSize_Smallest(blocks, preferredBlockSize, isCustomPool, size) ==
    [newBlockSize |-> preferredBlockSize \div 8,
     newBlockSizeShift |-> NEW_BLOCK_SIZE_SHIFT_MAX]

\* "Calculate optimal size for new block."
NewBlockSize(blocks, preferredBlockSize, isCustomPool, size) ==
    IF isCustomPool
    THEN [newBlockSize |-> preferredBlockSize, newBlockSizeShift |-> 0]
    ELSE NewBlockSizeFrom(preferredBlockSize, 0,
             CalcMaxBlockSize(blocks, preferredBlockSize), size, 0)

\* VmaBlockVector::CreateBlock with AllocateVulkanMemory under the heap's
\* limit.  Returns CreateBlock's [res, blocks, newBlockIndex] with
\* m_HeapSizeLimit, the calls of the device until now, and the size and shift
\* the block was asked with.
CreateBlockInHeap(blocks, heapSizeLimit, newBlockSize, newBlockSizeShift, deviceMax, calls) ==
    LET a == AllocateVulkanMemory(heapSizeLimit, newBlockSize, deviceMax)
        c == CreateBlock(blocks, newBlockSize, a.res)
    IN  [res |-> c.res, blocks |-> c.blocks, newBlockIndex |-> c.newBlockIndex,
         m_HeapSizeLimit |-> a.m_HeapSizeLimit, calls |-> calls \o a.calls,
         newBlockSize |-> newBlockSize, newBlockSizeShift |-> newBlockSizeShift]

\* The loop "Allocation of this size failed? Try 1/2, 1/4, 1/8 of
\* m_PreferredBlockSize" after created.
RECURSIVE CreateBlockRetry(_, _, _, _)
CreateBlockRetry(blocks, size, deviceMax, created) ==
    IF /\ created.res # "VK_SUCCESS"
       /\ created.newBlockSizeShift < NEW_BLOCK_SIZE_SHIFT_MAX
       /\ created.newBlockSize \div 2 >= size
    THEN CreateBlockRetry(blocks, size, deviceMax,
             CreateBlockInHeap(blocks, created.m_HeapSizeLimit, created.newBlockSize \div 2,
                 created.newBlockSizeShift + 1, deviceMax, created.calls))
    ELSE created

\* CreateBlock of step 2 of Allocate with the loops around it.
CreateNewBlock(blocks, heapSizeLimit, preferredBlockSize, isCustomPool, size, deviceMax) ==
    LET sized == NewBlockSize(blocks, preferredBlockSize, isCustomPool, size)
        created == CreateBlockInHeap(blocks, heapSizeLimit, sized.newBlockSize,
                       sized.newBlockSizeShift, deviceMax, << >>)
    IN  IF isCustomPool THEN created
        ELSE CreateBlockRetry(blocks, size, deviceMax, created)


\* VmaBlockVector::Allocate of a vector in the heap.  Step 1, and step 3 of a
\* vector that can make no new block, are those of VmaBlockVector_Allocate.
\* Returns [res, bv, m_HeapSizeLimit, calls, created], created being the
\* sizes of the blocks made.
HeapVectorAllocate(bv, heapSizeLimit, isCustomPool, createInfo, hAllocation, deviceMax) ==
    LET Old(r) ==
            [res |-> r.res, bv |-> r.bv, m_HeapSizeLimit |-> heapSizeLimit,
             calls |-> << >>, created |-> << >>]
        New(created, r) ==
            [res |-> r.res, bv |-> r.bv, m_HeapSizeLimit |-> created.m_HeapSizeLimit,
             calls |-> created.calls,
             created |-> IF created.res = "VK_SUCCESS"
                         THEN <<[size |-> created.newBlockSize,
                                 newBlockSizeShift |-> created.newBlockSizeShift]>>
                         ELSE << >>]
        Step2(created) ==
            New(created, AllocateStep2(bv, m_CurrentFrameIndex, m_FrameInUseCount,
                             createInfo, hAllocation, "VK_SUCCESS", created))
    IN  IF \/ BlocksThatFit(bv, createInfo) # {}
           \/ createInfo.neverAllocate
           \/ isCustomPool /\ Len(bv.m_Blocks) >= m_MaxBlockCount
        THEN Old(VmaBlockVector_Allocate(bv, m_CurrentFrameIndex, m_FrameInUseCount,
                     [createInfo EXCEPT !.neverAllocate = TRUE], hAllocation,
                     "VK_SUCCESS", "VK_SUCCESS"))
        ELSE Step2(CreateNewBlock(bv.m_Blocks, heapSizeLimit, HeapPreferredBlockSize,
                       isCustomPool, createInfo.size, deviceMax))

\* AllocateDedicatedMemory in the heap.  Returns what HeapVectorAllocate
\* returns; calls goes on from the calls made before.
HeapDedicatedAllocate(bv, heapSizeLimit, createInfo, hAllocation, deviceMax, calls) ==
    LET a == AllocateVulkanMemory(heapSizeLimit, createInfo.size, deviceMax)
        r == AllocateDedicatedMemory(m_CurrentFrameIndex, createInfo,
                 m_MaxBlockCount + hAllocation, a.res, "VK_SUCCESS")
    IN  [res |-> r.res,
         bv |-> IF r.res = "VK_SUCCESS" THEN [bv EXCEPT !.allocs[hAllocation] = r.alloc]
                ELSE bv,
         m_HeapSizeLimit |-> a.m_HeapSizeLimit, calls |-> calls \o a.calls,
         created |-> << >>]

\* VmaAllocator_T::AllocateMemoryOfType for the default vector, and
\* AllocateMemory with createInfo.pool for the custom pool.
HeapAllocate(bv, heapSizeLimit, isCustomPool, createInfo, hAllocation, deviceMax) ==
    LET InBlocks == HeapVectorAllocate(bv, heapSizeLimit, isCustomPool, createInfo,
                        hAllocation, deviceMax)
    IN  IF isCustomPool THEN InBlocks
        ELSE IF /\ \/ createInfo.dedicatedMemory
                   \/ createInfo.size > HeapPreferredBlockSize \div 2
                /\ ~createInfo.neverAllocate
        THEN HeapDedicatedAllocate(bv, heapSizeLimit, createInfo, hAllocation, deviceMax,
                 << >>)
        ELSE IF InBlocks.res = "VK_SUCCESS" THEN InBlocks
        ELSE IF createInfo.neverAllocate
        THEN [InBlocks EXCEPT !.res = "VK_ERROR_OUT_OF_DEVICE_MEMORY"]
        ELSE HeapDedicatedAllocate(InBlocks.bv, InBlocks.m_HeapSizeLimit, createInfo,
                 hAllocation, deviceMax, InBlocks.calls)

HeapAllocateMemory(createInfo, pAllocation, deviceMax) ==
    /\ hAllocations[pAllocation].m_Type = "NONE"
    /\ UNCHANGED <<m_CurrentFrameIndex, m_FrameInUseCount, m_MinBlockCount, m_Pools, threads>>
    /\ hist' = [madeLost |-> {}]
    /\ \E r \in {HeapAllocate(BlockVector, m_HeapSizeLimit, threads.m_IsCustomPool,
                     createInfo, pAllocation, deviceMax)} :
           /\ m_Blocks' = r.bv.m_Blocks
           /\ m_HasEmptyBlock' = r.bv.m_HasEmptyBlock
           /\ hAllocations' = r.bv.allocs
           /\ m_HeapSizeLimit' = r.m_HeapSizeLimit
           /\ ret' = [op |-> "AllocateMemory", res |-> r.res, asserted |-> FALSE,
                      size |-> createInfo.size, calls |-> r.calls, created |-> r.created]

\* The sizes of the blocks of before that are no longer in after, added up.
RECURSIVE DestroyedSize(_, _, _)
DestroyedSize(before, after, i) ==
    IF i > Len(before) THEN 0
    ELSE (IF BlockIndex(after, before[i].id) = 0 THEN before[i].m_Metadata.m_Size ELSE 0)
            + DestroyedSize(before, after, i + 1)

\* VmaAllocator_T::FreeMemory in the heap: VmaBlockVector::Free, whose
\* pBlockToDelete->Destroy calls FreeVulkanMemory, or FreeDedicatedMemory.
HeapFreeMemory(allocation) ==
    /\ allocation \in LiveHandles
    /\ UNCHANGED <<m_CurrentFrameIndex, m_FrameInUseCount, m_MinBlockCount, m_Pools, threads>>
    /\ ret' = [op |-> "FreeMemory", res |-> "VK_SUCCESS"]
    /\ hist' = [madeLost |-> {}]
    /\ IF hAllocations[allocation].m_Type = "BLOCK"
       THEN \E bv \in {VmaBlockVector_Free(BlockVector, allocation)} :
                /\ m_Blocks' = bv.m_Blocks
                /\ m_HasEmptyBlock' = bv.m_HasEmptyBlock
                /\ hAllocations' = [bv.allocs EXCEPT ![allocation] = NoAllocation]
                /\ m_HeapSizeLimit' =
                       FreeVulkanMemory(m_HeapSizeLimit,
                           DestroyedSize(m_Blocks, bv.m_Blocks, 1))
       ELSE /\ hAllocations' = [hAllocations EXCEPT ![allocation] = NoAllocation]
            /\ m_HeapSizeLimit' =
                   FreeVulkanMemory(m_HeapSizeLimit, hAllocations[allocation].m_Size)
            /\ UNCHANGED <<m_Blocks, m_HasEmptyBlock>>

HeapInit ==
    /\ m_Blocks = << >>
    /\ hAllocations = [h \in DOMAIN HeapCreateInfos |-> NoAllocation]
    /\ m_CurrentFrameIndex = 0
    /\ m_FrameInUseCount = 0
    /\ m_MinBlockCount = 0
    /\ m_HeapSizeLimit = pHeapSizeLimit
    /\ m_Pools = << >>
    /\ m_HasEmptyBlock = FALSE
    /\ ret = [op |-> "Init", res |-> "VK_SUCCESS"]
    /\ threads \in {[m_IsCustomPool |-> isCustomPool] : isCustomPool \in BOOLEAN}
    /\ hist = [madeLost |-> {}]

HeapNext ==
    \/ \E pAllocation \in DOMAIN hAllocations :
       \E createInfo \in HeapCreateInfos[pAllocation] :
       \E deviceMax \in DeviceMaxima :
           HeapAllocateMemory(createInfo, pAllocation, deviceMax)
    \/ \E allocation \in DOMAIN hAllocations : HeapFreeMemory(allocation)

SpecHeap == HeapInit /\ [][HeapNext]_vars


\* The device memory the allocator holds: its blocks and its dedicated
\* allocations.
RECURSIVE SumBlockSize(_, _)
SumBlockSize(blocks, i) ==
    IF i > Len(blocks) THEN 0
    ELSE blocks[i].m_Metadata.m_Size + SumBlockSize(blocks, i + 1)

RECURSIVE SumDedicatedSize(_, _)
SumDedicatedSize(allocs, h) ==
    IF h > Len(allocs) THEN 0
    ELSE (IF allocs[h].m_Type = "DEDICATED" THEN allocs[h].m_Size ELSE 0)
            + SumDedicatedSize(allocs, h + 1)

LiveDeviceMemory == SumBlockSize(m_Blocks, 1) + SumDedicatedSize(hAllocations, 1)

\* C31: the device memory obtained from a heap with a size limit, blocks and
\* dedicated allocations together, never exceeds the limit, and the remaining
\* budget plus that total is the limit, also after frees; vkAllocateMemory is
\* never called with a size above the remaining budget, and the allocation
\* that finds no memory fails with VK_ERROR_OUT_OF_DEVICE_MEMORY.
C31_HeapSizeLimitHolds ==
    /\ [](/\ LiveDeviceMemory <= pHeapSizeLimit
          /\ m_HeapSizeLimit + LiveDeviceMemory = pHeapSizeLimit)
    /\ [][ret'.op = "AllocateMemory" =>
              /\ \A k \in 1..Len(ret'.calls) : ret'.calls[k] <= m_HeapSizeLimit
              /\ ret'.res \in {"VK_SUCCESS", "VK_ERROR_OUT_OF_DEVICE_MEMORY"}]_vars

\* An allocation has failed without a call of the device, the budget being
\* smaller than the request though the device was not asked; memory was
\* freed before.
C31_Witness ==
    /\ ret.op = "AllocateMemory"
    /\ ret.res = "VK_ERROR_OUT_OF_DEVICE_MEMORY"
    /\ ret.calls = << >>
    /\ m_HeapSizeLimit < ret.size
    /\ m_HeapSizeLimit > 0
    /\ LiveDeviceMemory > HeapPreferredBlockSize

\* C32: in a default pool every newly created block has size
\* preferredSize / 2^k for some k in 0..3, k counting the halvings of the
\* sizing and of the retries together, and is never smaller than the
\* requested size; in a custom pool every created block has the configured
\* block size.
C32_NewBlockSizes ==
    [][ret'.op = "AllocateMemory" =>
           \A i \in 1..Len(ret'.created) :
               /\ \E b \in 1..Len(m_Blocks') :
                      /\ \A a \in 1..Len(m_Blocks) : m_Blocks[a].id # m_Blocks'[b].id
                      /\ m_Blocks'[b].m_Metadata.m_Size = ret'.created[i].size
               /\ IF threads.m_IsCustomPool
                  THEN ret'.created[i].size = HeapPreferredBlockSize
                  ELSE /\ ret'.created[i].newBlockSizeShift \in 0..3
                       /\ ret'.created[i].size
                             = HeapPreferredBlockSize \div (2 ^ ret'.created[i].newBlockSizeShift)
                       /\ ret'.created[i].size >= ret'.size]_vars

\* A block of an eighth of the preferred size was made in the default pool
\* after larger sizes had failed.
C32_Witness ==
    /\ ret.op = "AllocateMemory"
    /\ ret.res = "VK_SUCCESS"
    /\ ~threads.m_IsCustomPool
    /\ Len(ret.created) = 1
    /\ ret.created[1].newBlockSizeShift = 3
    /\ ret.created[1].size = 8
    /\ \E b \in 1..Len(m_Blocks) : m_Blocks[b].m_Metadata.m_Size = HeapPreferredBlockSize \div 2

(***************************************************************************)
(* SpecCost: a custom pool of two 32-byte blocks, each one page of the     *)
(* buffer-image granularity, that holds lostable buffers of 8 and 16       *)
(* bytes; an optimal image of 16 bytes is then allocated with              *)
(* VMA_ALLOCATION_CREATE_CAN_MAKE_OTHER_LOST_BIT.                          *)
(***************************************************************************)
CostCreateInfos ==
    LET Info(size, type, flags) ==
            [size |-> size, alignment |-> 1, type |-> type, pool |-> TRUE,
             dedicatedMemory |-> FALSE,
             neverAllocate |-> "NEVER_ALLOCATE" \in flags,
             mapped |-> FALSE,
             canBecomeLost |-> "CAN_BECOME_LOST" \in flags,
             canMakeOtherLost |-> "CAN_MAKE_OTHER_LOST" \in flags]
        Buffer(size) == Info(size, VMA_SUBALLOCATION_TYPE_BUFFER, {"CAN_BECOME_LOST"})
    IN  << {Buffer(8)},
           {Info(16, VMA_SUBALLOCATION_TYPE_IMAGE_OPTIMAL,
                 {"CAN_MAKE_OTHER_LOST", "NEVER_ALLOCATE"})},
           {Buffer(16)},
           {Buffer(8)},
           {Buffer(8)} >>

CostInit ==
    /\ m_Blocks = << >>
    /\ hAllocations = [h \in DOMAIN CostCreateInfos |-> NoAllocation]
    /\ m_CurrentFrameIndex = 0
    /\ m_FrameInUseCount = 0
    /\ m_MinBlockCount = 0
    /\ m_HeapSizeLimit = VK_WHOLE_SIZE
    /\ m_Pools = << >>
    /\ m_HasEmptyBlock = FALSE
    /\ ret = [op |-> "Init", res |-> "VK_SUCCESS"]
    /\ threads = NoThreads
    /\ hist = [madeLost |-> {}]

CostNext ==
    \/ \E h \in DOMAIN CostCreateInfos : \E createInfo \in CostCreateInfos[h] :
           AllocateMemory(createInfo, h, "VK_SUCCESS", "VK_SUCCESS")
    \/ \E h \in {1, 2} : FreeMemory(h)
    \/ \E frameIndex \in 0..MaxFrame : SetCurrentFrameIndex(frameIndex)

SpecCost == CostInit /\ [][CostNext]_vars

\* The suballocations that have to go for an allocation placed from
\* suballocation item on, given what CheckAllocation answered: the used ones
\* the range lies over, and behind them the ones on the same page whose type
\* conflicts with allocType.
MustEvict(subs, item, check, allocSize, allocType, bufferImageGranularity) ==
    {j \in item..check.lastSuballocItem : subs[j].type # VMA_SUBALLOCATION_TYPE_FREE}
        \cup {j \in (check.lastSuballocItem + 1)..Len(subs) :
                 /\ bufferImageGranularity > 1
                 /\ \A k \in (check.lastSuballocItem + 1)..j :
                        VmaBlocksOnSamePage(check.offset, allocSize, subs[k].offset,
                                            bufferImageGranularity)
                 /\ VmaIsBufferImageGranularityConflict(allocType, subs[j].type)}

RECURSIVE SumOfSizes(_, _)
SumOfSizes(size, S) ==
    IF S = {} THEN 0
    ELSE LET x == CHOOSE y \in S : TRUE
         IN  size[x] + SumOfSizes(size, S \ {x})

\* The candidates of an eviction search over the vector: every block and
\* start position that CheckAllocation accepts, with the cost CalcCost gives
\* it and the sizes and number of the allocations that have to be evicted.
EvictionCandidates(bv, currentFrameIndex, frameInUseCount, allocSize, allocAlignment, allocType) ==
    LET Candidate(b, i, subs, check) ==
            [block |-> b, item |-> i, ret |-> check.ret, offset |-> check.offset,
             cost |-> CalcCost(RequestOf(check, i)),
             evictedSize |-> IF check.ret
                             THEN SumOfSizes([j \in 1..Len(subs) |-> subs[j].size],
                                      MustEvict(subs, i, check, allocSize, allocType,
                                                m_BufferImageGranularity))
                             ELSE 0,
             evictedCount |-> IF check.ret
                              THEN Cardinality(MustEvict(subs, i, check, allocSize,
                                                   allocType, m_BufferImageGranularity))
                              ELSE 0]
        All == UNION {{Candidate(b, i, bv.m_Blocks[b].m_Metadata.m_Suballocations,
                           CheckAllocation(bv.m_Blocks[b].m_Metadata, bv.allocs,
                               currentFrameIndex, frameInUseCount,
                               m_BufferImageGranularity, allocSize, allocAlignment,
                               allocType, i, TRUE)) :
                          i \in {k \in 1..Len(bv.m_Blocks[b].m_Metadata.m_Suballocations) :
                                    LET s == bv.m_Blocks[b].m_Metadata.m_Suballocations[k]
                                    IN  \/ s.type = VMA_SUBALLOCATION_TYPE_FREE
                                        \/ CanBecomeLost(bv.allocs[s.hAllocation])}} :
                      b \in 1..Len(bv.m_Blocks)}
    IN  {c \in All : c.ret}

\* AllocateMemory has placed allocation h in a block by making others lost.
PlacedByEviction(h) ==
    /\ ret'.op = "AllocateMemory"
    /\ ret'.res = "VK_SUCCESS"
    /\ hAllocations[h].m_Type = "NONE"
    /\ hAllocations'[h].m_Type = "BLOCK"
    /\ hist'.madeLost # {}

\* C33: in the eviction step the candidate that is executed has the minimum
\* cost over the candidates of all blocks of the vector and of all start
\* positions in a block, the cost being the sum of the sizes of the
\* allocations that must be evicted plus 1048576 times their number.
C33_ExecutedHasMinimumCost ==
    [][\A h \in DOMAIN hAllocations :
           PlacedByEviction(h) =>
               \A c \in EvictionCandidates(BlockVector, m_CurrentFrameIndex,
                            m_FrameInUseCount, hAllocations'[h].m_Size,
                            hAllocations'[h].m_Alignment,
                            hAllocations'[h].m_SuballocationType) :
                   SumOfSizes([g \in DOMAIN hAllocations |-> hAllocations[g].m_Size],
                              hist'.madeLost)
                       + VMA_LOST_ALLOCATION_COST * Cardinality(hist'.madeLost)
                     <= c.evictedSize + VMA_LOST_ALLOCATION_COST * c.evictedCount]_vars

\* The executed candidate has the least CalcCost of all candidates, in which
\* an allocation evicted for a granularity conflict counts as one allocation
\* of no bytes.
C33_ExecutedHasMinimumCalcCost ==
    [][\A h \in DOMAIN hAllocations :
           PlacedByEviction(h) =>
               LET candidates == EvictionCandidates(BlockVector, m_CurrentFrameIndex,
                                     m_FrameInUseCount, hAllocations'[h].m_Size,
                                     hAllocations'[h].m_Alignment,
                                     hAllocations'[h].m_SuballocationType)
               IN  \E e \in candidates :
                       /\ m_Blocks[e.block].id = hAllocations'[h].m_Block
                       /\ e.offset = hAllocations'[h].m_Offset
                       /\ e.evictedCount = Cardinality(hist'.madeLost)
                       /\ \A c \in candidates : e.cost <= c.cost]_vars

\* An allocation has been placed by evicting two others when another block
\* had a candidate as well.
C33_Witness ==
    /\ ret.op = "AllocateMemory"
    /\ ret.res = "VK_SUCCESS"
    /\ Cardinality(hist.madeLost) = 2
    /\ Len(m_Blocks) = 2
    /\ \E h \in LiveHandles : hAllocations[h].m_SuballocationType = VMA_SUBALLOCATION_TYPE_IMAGE_OPTIMAL

====
